---------------------------- MODULE Spec2Model ----------------------------
(***************************************************************************)
(* A model of the comparison/scoring core and the n-gram deduplicator of   *)
(* youtube_miner:                                                          *)
(*   src/comparator/normalizer.py   TextNormalizer                         *)
(*   src/comparator/wer.py, cer.py  WERCalculator, CERCalculator           *)
(*   src/comparator/semantic.py     SemanticSimilarity                     *)
(*   src/comparator/hybrid.py       HybridScore                            *)
(*   src/models/comparison.py       ComparisonResult, MetricsSummary       *)
(*   src/models/transcript.py       Transcript                             *)
(*   src/deduplicator/ngram.py      NGramDeduplicator                      *)
(*   src/web/app.py                 the job record of the web server       *)
(*                                                                         *)
(* A Python str is a sequence of one-character strings; a float is an      *)
(* exact rational [n |-> numerator, d |-> denominator] in lowest terms.    *)
(***************************************************************************)
EXTENDS Integers, Sequences, FiniteSets, TLC

VARIABLES
    dText,      \* deduplicate_text: the argument `text` (original_text)
    dPc,        \* deduplicate_text: the step that runs next
    dCur,       \* deduplicate_text: the local `text`
    dWords,     \* _remove_large_repetitions: the local `words`
    dN,         \* the loop variable (segment_size, then n)
    dOut,       \* deduplicate_text: the returned text
    dLogged     \* deduplicate_text: whether the "Heavy deduplication" note was logged

VARIABLES
    nText,      \* TextNormalizer.normalize: the argument `text`
    nPc,        \* "call" before normalize ran, "once" after it, "twice" after a second pass
    nOnce,      \* normalize(text)
    nTwice,     \* normalize(normalize(text))
    nExpanded,  \* normalize: the local `text` when _remove_punctuation is entered
    nStripped   \* normalize: what _remove_punctuation returned

VARIABLES
    rRef,       \* WERCalculator / CERCalculator .calculate: the argument `reference`
    rHyp,       \* the argument `hypothesis`
    rPc,        \* "call" before the call, "done" after it returned
    rKind,      \* which calculator ran: "wer" or "cer"
    rFailed,    \* whether the jiwer call raised inside the try block
    rOut        \* the returned rate

VARIABLES
    alpha,      \* HybridScore.alpha
    model,      \* SemanticSimilarity._model: "none" or "loaded"
    hBackend,   \* how SentenceTransformer(...) behaves: "ok", "token_fails" or "fails"
    hOp,        \* the operation called: "none", "compare_all", "compare", "calculate",
                \* "calculate_batch", "unload_model" or "construct"
    hRefs,      \* reference_texts (for calculate_batch: the first texts of text_pairs)
    hHyps,      \* hypothesis_texts (for calculate_batch: the second texts)
    hPc,        \* "idle", "loop" (inside the for loop), "returned" or "raised"
    hI,         \* the number of pairs the loop has scored
    hResults,   \* the local list `results`; what the caller receives once hPc = "returned"
    hRaised,    \* the exception that left the call: "none", "ValueError", "LoadError"
    hEnvs,      \* for each scored pair, which library calls failed and the raw cosine
    hLoads,     \* the SentenceTransformer(...) constructions attempted during the call
    hEncodes,   \* the _model.encode calls made during the call
    hBuilt,     \* the SentenceTransformer(...) constructions that returned a model
    hCalls      \* the number of earlier calls on this object that have ended

VARIABLES
    sPc,        \* "off", "result" (a result to serialize), "dict" or "restored"
    sDict,      \* what to_dict returned, as a list of at most one dict
    sBack       \* what from_dict returned, as a list of at most one ComparisonResult

VARIABLES
    tPc,        \* "off", "call", "loop", "text" (inside deduplicate_text) or "returned"
    tGiven,     \* deduplicate_transcripts: the Transcript values the caller passed
    tInputs,    \* the caller's Transcript objects as they are now
    tI,         \* the number of transcripts the comprehension has handled
    tOutputs    \* the list being built; what the caller receives once tPc = "returned"

VARIABLES
    mPc,        \* "off", "call", "returned" or "raised"
    mResults,   \* MetricsSummary.from_results: the argument `results`
    mSummary    \* what from_results returned, as a list of at most one MetricsSummary

VARIABLES
    min_n,      \* NGramDeduplicator.min_n
    max_n       \* NGramDeduplicator.max_n

VARIABLES
    dRound,     \* which application of the deduplicator to its own output this is
    dFirst      \* what the first application returned, as a list of at most one text

VARIABLES
    cPc,        \* SemanticSimilarity.calculate on one thread: "off", "call", "loaded",
                \* "normalized", "returned" or "raised"
    cSeen,      \* what self._model held when the try block read it: "unread", "none"
                \* or "loaded"
    uCount      \* the unload_model calls another thread has completed meanwhile

dedupVars == <<dText, dPc, dCur, dWords, dN, dOut, dLogged>>

normVars == <<nText, nPc, nOnce, nTwice, nExpanded, nStripped>>

rateVars == <<rRef, rHyp, rPc, rKind, rFailed, rOut>>

hybridVars == <<alpha, model, hBackend, hOp, hRefs, hHyps, hPc, hI, hResults, hRaised,
                hEnvs, hLoads, hEncodes, hBuilt, hCalls>>

serialVars == <<sPc, sDict, sBack>>

transcriptVars == <<tPc, tGiven, tInputs, tI, tOutputs>>

summaryVars == <<mPc, mResults, mSummary>>

VARIABLES
    rDetail     \* what calculate_detailed returned, as a list of at most one dict

VARIABLES
    jPc,        \* _run_pipeline_with_chunks: the statement that runs next ("off": no job)
    jStatus,    \* job["status"]
    jProgress,  \* job["progress"]
    jChunks,    \* the "status" of each entry of job["chunks"]
    jI,         \* the loop variable i of the chunk loop
    jResults    \* len(all_results)

configVars == <<min_n, max_n>>

againVars == <<dRound, dFirst>>

raceVars == <<cPc, cSeen, uCount>>

detailVars == <<rDetail>>

jobVars == <<jPc, jStatus, jProgress, jChunks, jI, jResults>>

extraVars == <<configVars, againVars, raceVars, detailVars, jobVars>>

vars == <<dedupVars, normVars, rateVars, hybridVars, serialVars, transcriptVars, summaryVars,
          extraVars>>

(***************************************************************************)
(* Characters and strings                                                  *)
(***************************************************************************)

\* str.isspace for the characters of the model
IsSpace(c) == c = " "

\* the punctuation characters of the model
Punctuation == {"!", ",", ".", "?", "-"}

\* the character class \w of Python's re (letters, digits, underscore):
\* every character of the model but whitespace, the apostrophe and punctuation
IsWordChar(c) == ~IsSpace(c) /\ c # "'" /\ c \notin Punctuation

\* the upper-case letters of the model and their lower-case forms
LowerOf ==
    ("A" :> "a") @@ ("B" :> "b") @@ ("C" :> "c") @@ ("D" :> "d") @@ ("I" :> "i")
        @@ ("N" :> "n") @@ ("S" :> "s") @@ ("T" :> "t") @@ ("W" :> "w") @@ ("X" :> "x")

\* str.lower on one character
LowerChar(c) == IF c \in DOMAIN LowerOf THEN LowerOf[c] ELSE c

\* the sequence f as an explicit tuple (TLC then evaluates its elements at once)
AsTuple(f) == SubSeq(f, 1, Len(f))

\* str.lower
Lower(s) == AsTuple([k \in 1..Len(s) |-> LowerChar(s[k])])

\* the k-th smallest element of a finite set of integers
Nth(S, k) == CHOOSE i \in S : Cardinality({j \in S : j <= i}) = k

NonSpace(s) == {i \in 1..Len(s) : ~IsSpace(s[i])}

\* str.strip(): without its leading and trailing whitespace
Strip(s) ==
    IF NonSpace(s) = {} THEN <<>>
    ELSE SubSeq(s, Nth(NonSpace(s), 1), Nth(NonSpace(s), Cardinality(NonSpace(s))))

\* the positions at which a word (a maximal run of non-whitespace) starts
WordStarts(s) == {i \in NonSpace(s) : i = 1 \/ IsSpace(s[i - 1])}

\* the last position of the word that starts at position i
WordEnd(s, i) ==
    CHOOSE j \in i..Len(s) :
        /\ \A k \in i..j : ~IsSpace(s[k])
        /\ (j = Len(s) \/ IsSpace(s[j + 1]))

\* str.split(): the maximal runs of non-whitespace characters
Split(s) ==
    AsTuple([k \in 1..Cardinality(WordStarts(s)) |->
                SubSeq(s, Nth(WordStarts(s), k), WordEnd(s, Nth(WordStarts(s), k)))])

\* ' '.join(words)
RECURSIVE Join(_)
Join(words) ==
    IF words = <<>> THEN <<>>
    ELSE IF Len(words) = 1 THEN words[1]
    ELSE words[1] \o <<" ">> \o Join(Tail(words))

\* re.sub(r'\s+', ' ', text): every run of whitespace becomes one space
CollapseWs(s) ==
    LET keep == {i \in 1..Len(s) : ~IsSpace(s[i]) \/ i = 1 \/ ~IsSpace(s[i - 1])}
    IN  AsTuple([k \in 1..Cardinality(keep) |->
                    IF IsSpace(s[Nth(keep, k)]) THEN " " ELSE s[Nth(keep, k)]])

\* tuple(w.lower() for w in words[i:j])   (0-based half-open slice)
LowerSlice(words, i, j) == AsTuple([k \in 1..(j - i) |-> Lower(words[i + k])])

\* words[i:j]
Slice(words, i, j) == SubSeq(words, i + 1, j)

Min(a, b) == IF a <= b THEN a ELSE b

(***************************************************************************)
(* NGramDeduplicator                                                       *)
(***************************************************************************)

DefaultMinN == 1
DefaultMaxN == 30

\* the segment length from which _segments_similar tolerates differences
FuzzyMinLen == 10

\* the largest segment size _remove_large_repetitions tries
MaxSegmentSize == 25

\* sum(1 for a, b in zip(seg1, seg2) if a == b)
Matches(seg1, seg2) == Cardinality({k \in 1..Len(seg1) : seg1[k] = seg2[k]})

\* a variant of _segments_similar: 80% of the positions, from 5 words on
segments_similar_loose(seg1, seg2) ==
    IF seg1 = seg2 THEN TRUE
    ELSE IF Len(seg1) # Len(seg2) THEN FALSE
    ELSE IF Len(seg1) >= 5 THEN 10 * Matches(seg1, seg2) >= 8 * Len(seg1)
    ELSE FALSE

\* matches >= len(seg1) * 0.9 holds exactly when 10 * matches >= 9 * len(seg1)
segments_similar(seg1, seg2) ==
    IF seg1 = seg2 THEN TRUE
    ELSE IF Len(seg1) # Len(seg2) THEN FALSE
    ELSE IF Len(seg1) >= FuzzyMinLen THEN 10 * Matches(seg1, seg2) >= 9 * Len(seg1)
    ELSE FALSE

\* the inner while comparing each window with the window before it
RECURSIVE SkipSegmentsDrift(_, _, _, _)
SkipSegmentsDrift(words, current_segment, i, segment_size) ==
    IF i + segment_size <= Len(words)
       /\ segments_similar(LowerSlice(words, i - segment_size, i),
                           LowerSlice(words, i, i + segment_size))
    THEN SkipSegmentsDrift(words, current_segment, i + segment_size, segment_size)
    ELSE i

\* the inner while of _remove_segment_repetitions: skip the windows similar to
\* current_segment; the value is the index i at which the loop stops
RECURSIVE SkipSegments(_, _, _, _)
SkipSegments(words, current_segment, i, segment_size) ==
    IF i + segment_size <= Len(words)
       /\ segments_similar(current_segment, LowerSlice(words, i, i + segment_size))
    THEN SkipSegments(words, current_segment, i + segment_size, segment_size)
    ELSE i

\* the outer while of _remove_segment_repetitions
RECURSIVE SegmentScan(_, _, _, _)
SegmentScan(words, segment_size, i, result) ==
    IF i >= Len(words) THEN result
    ELSE IF i + segment_size * 2 <= Len(words)
              /\ segments_similar(LowerSlice(words, i, i + segment_size),
                                  LowerSlice(words, i + segment_size, i + segment_size * 2))
         THEN SegmentScan(words, segment_size,
                          SkipSegments(words, LowerSlice(words, i, i + segment_size),
                                       i + segment_size, segment_size),
                          result \o Slice(words, i, i + segment_size))
         ELSE SegmentScan(words, segment_size, i + 1, Append(result, words[i + 1]))

remove_segment_repetitions(words, segment_size) ==
    IF Len(words) < segment_size * 2 THEN words
    ELSE SegmentScan(words, segment_size, 0, <<>>)

\* the inner while of _remove_repeated_ngrams
RECURSIVE SkipNgrams(_, _, _, _)
SkipNgrams(words, current_ngram, i, n) ==
    IF i + n <= Len(words) /\ LowerSlice(words, i, i + n) = current_ngram
    THEN SkipNgrams(words, current_ngram, i + n, n)
    ELSE i

\* the outer while extending the result with current_ngram, the lower-cased words
RECURSIVE NgramScanLowered(_, _, _, _)
NgramScanLowered(words, n, i, result) ==
    IF i >= Len(words) THEN result
    ELSE IF i + n * 2 <= Len(words)
              /\ LowerSlice(words, i, i + n) = LowerSlice(words, i + n, i + n * 2)
         THEN NgramScanLowered(words, n,
                               SkipNgrams(words, LowerSlice(words, i, i + n), i + n * 2, n),
                               result \o LowerSlice(words, i, i + n))
         ELSE NgramScanLowered(words, n, i + 1, Append(result, words[i + 1]))

\* the outer while of _remove_repeated_ngrams
RECURSIVE NgramScan(_, _, _, _)
NgramScan(words, n, i, result) ==
    IF i >= Len(words) THEN result
    ELSE IF i + n * 2 <= Len(words)
              /\ LowerSlice(words, i, i + n) = LowerSlice(words, i + n, i + n * 2)
         THEN NgramScan(words, n,
                        SkipNgrams(words, LowerSlice(words, i, i + n), i + n * 2, n),
                        result \o Slice(words, i, i + n))
         ELSE NgramScan(words, n, i + 1, Append(result, words[i + 1]))

remove_repeated_ngrams(text, n) ==
    LET words == Split(text)
    IN  IF Len(words) < n * 2 THEN text
        ELSE Join(NgramScan(words, n, 0, <<>>))

\* the for loop of _remove_consecutive_duplicates
RECURSIVE ConsecutiveScan(_, _)
ConsecutiveScan(rest, result) ==
    IF rest = <<>> THEN result
    ELSE IF Lower(Head(rest)) # Lower(result[Len(result)])
         THEN ConsecutiveScan(Tail(rest), Append(result, Head(rest)))
         ELSE ConsecutiveScan(Tail(rest), result)

\* a variant of _remove_consecutive_duplicates that keeps the last word of a run
RECURSIVE ConsecutiveScanLast(_, _)
ConsecutiveScanLast(rest, result) ==
    IF rest = <<>> THEN result
    ELSE IF Lower(Head(rest)) # Lower(result[Len(result)])
         THEN ConsecutiveScanLast(Tail(rest), Append(result, Head(rest)))
         ELSE ConsecutiveScanLast(Tail(rest),
                                  SubSeq(result, 1, Len(result) - 1) \o <<Head(rest)>>)

remove_consecutive_duplicates_last(text) ==
    LET words == Split(text)
    IN  IF words = <<>> THEN text
        ELSE Join(ConsecutiveScanLast(Tail(words), <<words[1]>>))

remove_consecutive_duplicates(text) ==
    LET words == Split(text)
    IN  IF words = <<>> THEN text
        ELSE Join(ConsecutiveScan(Tail(words), <<words[1]>>))

\* cleaned_words < original_words * 0.7, in integers
HeavyReduction(original_words, cleaned_words) ==
    original_words > 0 /\ 10 * cleaned_words < 7 * original_words

(***************************************************************************)
(* Inputs of deduplicate_text                                              *)
(***************************************************************************)

\* every word sequence of at most MaxWords words over ShortVocab
MaxWords == 6

ShortVocab == {<<"a">>, <<"A">>, <<"b">>}

ShortWordSeqs == UNION {[1..n -> ShortVocab] : n \in 0..MaxWords}

\* the words separated by two spaces, with a leading and a trailing space
RECURSIVE JoinLoose(_)
JoinLoose(words) ==
    IF words = <<>> THEN <<" ">>
    ELSE <<" ">> \o words[1] \o <<" ">> \o JoinLoose(Tail(words))

\* seg with its k-th word replaced by w
Subst(seg, k, w) == [seg EXCEPT ![k] = w]

LongVocab == {<<"a">>, <<"b">>, <<"c">>, <<"d">>}

Segments ==
    { <<<<"a">>, <<"b">>, <<"a">>, <<"c">>, <<"a">>, <<"b">>, <<"a">>, <<"d">>, <<"a">>, <<"b">>>>,
      <<<<"a">>, <<"b">>, <<"c">>, <<"a">>, <<"d">>, <<"b">>>>,
      <<<<"a">>, <<"b">>, <<"c">>, <<"a">>, <<"d">>>> }

Prefixes == {<<>>, <<<<"d">>>>}

Tails == {<<>>, <<<<"C">>>>, <<<<"c">>, <<"d">>>>}

\* a segment followed by a copy of itself that differs in at most one word
LongWordSeqs ==
    UNION { { pre \o seg \o Subst(seg, k, w) \o tl :
                pre \in Prefixes, k \in 1..Len(seg), w \in LongVocab, tl \in Tails } :
            seg \in Segments }

\* the ten-word segment
TenWords == <<<<"a">>, <<"b">>, <<"a">>, <<"c">>, <<"a">>, <<"b">>, <<"a">>, <<"d">>, <<"a">>, <<"b">>>>

\* the ten-word segment, a copy that differs from it in its last word, and a
\* third copy that differs from the second in at most one more word
DriftWordSeqs ==
    { TenWords \o Subst(TenWords, 10, <<"c">>) \o Subst(Subst(TenWords, 10, <<"c">>), k, w) \o tl :
          k \in {9, 10}, w \in {<<"b">>, <<"d">>}, tl \in {<<>>, <<<<"c">>>>} }

\* texts of whitespace only (the empty text is Join(<<>>))
WhitespaceOnly == {<<" ">>, <<" ", " ", " ">>}

\* ten words of which three (exactly 30%) resp. four are a repeated phrase
BoundaryWordSeqs ==
    { <<<<"a">>, <<"b">>, <<"c">>, <<"a">>, <<"b">>, <<"c">>, <<"d">>, <<"e">>, <<"f">>, <<"g">>>>,
      <<<<"a">>, <<"b">>, <<"c">>, <<"d">>, <<"a">>, <<"b">>, <<"c">>, <<"d">>, <<"e">>, <<"f">>>> }

DedupInputs ==
    {Join(ws) : ws \in ShortWordSeqs} \cup {JoinLoose(ws) : ws \in ShortWordSeqs}
        \cup {Join(ws) : ws \in LongWordSeqs} \cup {Join(ws) : ws \in DriftWordSeqs}
        \cup {Join(ws) : ws \in BoundaryWordSeqs} \cup WhitespaceOnly

(***************************************************************************)
(* NGramDeduplicator().deduplicate_text(text)                              *)
(***************************************************************************)

\* no call of deduplicate_text is in progress
DedupIdle ==
    /\ dText = <<>>
    /\ dPc = "off"
    /\ dCur = <<>>
    /\ dWords = <<>>
    /\ dN = 0
    /\ dOut = <<>>
    /\ dLogged = FALSE

\* no call of normalize is in progress
NormIdle ==
    /\ nText = <<>>
    /\ nPc = "off"
    /\ nOnce = <<>>
    /\ nTwice = <<>>
    /\ nExpanded = <<>>
    /\ nStripped = <<>>

\* no call of a rate calculator is in progress
RateIdle ==
    /\ rRef = <<>>
    /\ rHyp = <<>>
    /\ rPc = "off"
    /\ rKind = "none"
    /\ rFailed = FALSE
    /\ rOut = [n |-> 0, d |-> 1]

\* a HybridScore() and its SemanticSimilarity right after construction, no call made
HybridIdle ==
    /\ alpha = [n |-> 1, d |-> 2]
    /\ model = "none"
    /\ hBackend = "ok"
    /\ hOp = "none"
    /\ hRefs = <<>>
    /\ hHyps = <<>>
    /\ hPc = "idle"
    /\ hI = 0
    /\ hResults = <<>>
    /\ hRaised = "none"
    /\ hEnvs = <<>>
    /\ hLoads = 0
    /\ hEncodes = 0
    /\ hBuilt = 0
    /\ hCalls = 0

\* no ComparisonResult is being serialized
SerialIdle ==
    /\ sPc = "off"
    /\ sDict = <<>>
    /\ sBack = <<>>

\* no call of deduplicate_transcripts is in progress
TranscriptIdle ==
    /\ tPc = "off"
    /\ tGiven = <<>>
    /\ tInputs = <<>>
    /\ tI = 0
    /\ tOutputs = <<>>

\* no call of MetricsSummary.from_results is in progress
SummaryIdle ==
    /\ mPc = "off"
    /\ mResults = <<>>
    /\ mSummary = <<>>

\* NGramDeduplicator() as app.py and orchestrator.py construct it
ConfigIdle ==
    /\ min_n = DefaultMinN
    /\ max_n = DefaultMaxN

\* deduplicate_text is not being applied to its own output
AgainIdle ==
    /\ dRound = 0
    /\ dFirst = <<>>

\* no second thread is running beside a calculate call
RaceIdle ==
    /\ cPc = "off"
    /\ cSeen = "unread"
    /\ uCount = 0

\* calculate_detailed has not been called
DetailIdle == rDetail = <<>>

\* no job has been submitted to the web server
JobIdle ==
    /\ jPc = "off"
    /\ jStatus = "none"
    /\ jProgress = 0
    /\ jChunks = <<>>
    /\ jI = 0
    /\ jResults = 0

ExtraIdle ==
    /\ ConfigIdle
    /\ AgainIdle
    /\ RaceIdle
    /\ DetailIdle
    /\ JobIdle

InitDedup ==
    /\ dText \in DedupInputs
    /\ dPc = "call"
    /\ dCur = <<>>
    /\ dWords = <<>>
    /\ dN = 0
    /\ dOut = <<>>
    /\ dLogged = FALSE
    /\ NormIdle
    /\ RateIdle
    /\ HybridIdle
    /\ SerialIdle
    /\ TranscriptIdle
    /\ SummaryIdle
    /\ ExtraIdle

\* the test of deduplicate_text's early return taking only the empty text
is_blank_empty_only(text) == text = <<>>

\* the test of deduplicate_text's early return: not text or not text.strip()
is_blank(text) == text = <<>> \/ Strip(text) = <<>>

\* the empty-input return, else the entry of _remove_large_repetitions
DedupEnter ==
    /\ dPc = "call"
    /\ IF is_blank(dText)
       THEN /\ dOut' = <<>>
            /\ dPc' = "done"
            /\ UNCHANGED <<dCur, dWords, dN>>
       ELSE IF Len(Split(dText)) < 10
       THEN /\ dCur' = dText
            /\ dPc' = "medium"
            /\ dN' = Min(max_n, 20)
            /\ UNCHANGED <<dWords, dOut>>
       ELSE /\ dWords' = Split(dText)
            /\ dPc' = "large"
            /\ dN' = Min(Len(Split(dText)) \div 2, MaxSegmentSize)
            /\ UNCHANGED <<dCur, dOut>>
    /\ UNCHANGED <<dText, dLogged>>
    /\ UNCHANGED <<normVars, rateVars, hybridVars, serialVars, transcriptVars, summaryVars, extraVars>>

\* for segment_size in range(min(len(words) // 2, 25), 5, -1), then the join
DedupLargeStep ==
    /\ dPc = "large"
    /\ IF dN > 5
       THEN /\ dWords' = remove_segment_repetitions(dWords, dN)
            /\ dN' = dN - 1
            /\ UNCHANGED <<dCur, dPc>>
       ELSE /\ dCur' = Join(dWords)
            /\ dPc' = "medium"
            /\ dN' = Min(max_n, 20)
            /\ UNCHANGED dWords
    /\ UNCHANGED <<dText, dOut, dLogged>>
    /\ UNCHANGED <<normVars, rateVars, hybridVars, serialVars, transcriptVars, summaryVars, extraVars>>

\* for n in range(min(self.max_n, 20), 4, -1)
DedupMediumStep ==
    /\ dPc = "medium"
    /\ IF dN > 4
       THEN /\ dCur' = remove_repeated_ngrams(dCur, dN)
            /\ dN' = dN - 1
            /\ UNCHANGED dPc
       ELSE /\ dPc' = "small"
            /\ dN' = 4
            /\ UNCHANGED dCur
    /\ UNCHANGED <<dText, dWords, dOut, dLogged>>
    /\ UNCHANGED <<normVars, rateVars, hybridVars, serialVars, transcriptVars, summaryVars, extraVars>>

\* n is produced by range(4, stop, -1) once the sweep has come down to n
in_small_range(n, stop) == n > stop

\* for n in range(4, self.min_n, -1)
DedupSmallStep ==
    /\ dPc = "small"
    /\ IF in_small_range(dN, min_n)
       THEN /\ dCur' = remove_repeated_ngrams(dCur, dN)
            /\ dN' = dN - 1
            /\ UNCHANGED dPc
       ELSE /\ dPc' = "single"
            /\ UNCHANGED <<dCur, dN>>
    /\ UNCHANGED <<dText, dWords, dOut, dLogged>>
    /\ UNCHANGED <<normVars, rateVars, hybridVars, serialVars, transcriptVars, summaryVars, extraVars>>

\* step 4, the whitespace clean-up, the log note and the return
DedupFinish ==
    /\ dPc = "single"
    /\ LET text == Strip(CollapseWs(remove_consecutive_duplicates(dCur)))
       IN  /\ dOut' = text
           /\ dLogged' = HeavyReduction(Len(Split(dText)), Len(Split(text)))
    /\ dPc' = "done"
    /\ UNCHANGED <<dText, dCur, dWords, dN>>
    /\ UNCHANGED <<normVars, rateVars, hybridVars, serialVars, transcriptVars, summaryVars, extraVars>>

NextDedup ==
    \/ DedupEnter
    \/ DedupLargeStep
    \/ DedupMediumStep
    \/ DedupSmallStep
    \/ DedupFinish

SpecDedup == InitDedup /\ [][NextDedup]_vars

(***************************************************************************)
(* NGramDeduplicator(min_n, max_n).deduplicate_text(text)                  *)
(***************************************************************************)

\* the longest run of distinct words that is said twice
MaxRun == 7

RunWords ==
    <<<<"a">>, <<"b">>, <<"c">>, <<"d">>, <<"e">>, <<"f">>, <<"g">>, <<"h">>, <<"i">>, <<"j">>>>

\* the first n words
Run(n) == SubSeq(RunWords, 1, n)

\* a run of n distinct words said twice: the only repeated run in it has n words
Doubled(n) == Join(Run(n) \o Run(n))

MinNs == 1..4

MaxNs == {2, 4, 5, DefaultMaxN}

InitConfig ==
    /\ dText \in {Doubled(n) : n \in 1..MaxRun}
    /\ dPc = "call"
    /\ dCur = <<>>
    /\ dWords = <<>>
    /\ dN = 0
    /\ dOut = <<>>
    /\ dLogged = FALSE
    /\ min_n \in MinNs
    /\ max_n \in MaxNs
    /\ NormIdle
    /\ RateIdle
    /\ HybridIdle
    /\ SerialIdle
    /\ TranscriptIdle
    /\ SummaryIdle
    /\ AgainIdle
    /\ RaceIdle
    /\ DetailIdle
    /\ JobIdle

SpecConfig == InitConfig /\ [][NextDedup]_vars

(***************************************************************************)
(* deduplicate_text applied to its own output                              *)
(***************************************************************************)

AgainInputs == {Join(ws) : ws \in ShortWordSeqs} \cup {Join(ws) : ws \in DriftWordSeqs}

InitAgain ==
    /\ dText \in AgainInputs
    /\ dPc = "call"
    /\ dCur = <<>>
    /\ dWords = <<>>
    /\ dN = 0
    /\ dOut = <<>>
    /\ dLogged = FALSE
    /\ dRound = 1
    /\ dFirst = <<>>
    /\ NormIdle
    /\ RateIdle
    /\ HybridIdle
    /\ SerialIdle
    /\ TranscriptIdle
    /\ SummaryIdle
    /\ ConfigIdle
    /\ RaceIdle
    /\ DetailIdle
    /\ JobIdle

\* the caller passes what the first call returned to a second call
DedupAgain ==
    /\ dPc = "done"
    /\ dRound = 1
    /\ dFirst' = <<dOut>>
    /\ dRound' = 2
    /\ dText' = dOut
    /\ dPc' = "call"
    /\ dCur' = <<>>
    /\ dWords' = <<>>
    /\ dN' = 0
    /\ dOut' = <<>>
    /\ dLogged' = FALSE
    /\ UNCHANGED <<normVars, rateVars, hybridVars, serialVars, transcriptVars, summaryVars>>
    /\ UNCHANGED <<configVars, raceVars, detailVars, jobVars>>

NextAgain ==
    \/ DedupEnter
    \/ DedupLargeStep
    \/ DedupMediumStep
    \/ DedupSmallStep
    \/ DedupFinish
    \/ DedupAgain

SpecAgain == InitAgain /\ [][NextAgain]_vars

(***************************************************************************)
(* deduplicate_transcript and deduplicate_transcripts                      *)
(***************************************************************************)

\* the longest list of transcripts
MaxTranscripts == 2

\* None where a str is expected
NoText == <<"None">>

\* Transcript(...) with its __post_init__ (created_at, a timestamp, is left out)
Transcript(text, model_name, chunk_index, confidence, language, processing_time, raw_text, deduplicated) ==
    [text |-> text,
     model_name |-> model_name,
     chunk_index |-> chunk_index,
     confidence |-> confidence,
     language |-> language,
     processing_time |-> processing_time,
     raw_text |-> IF raw_text = NoText THEN text ELSE raw_text,
     deduplicated |-> deduplicated]

\* deduplicate_transcript handing the input's raw_text on to the new Transcript
deduplicated_copy_keeps_raw(transcript, original_text, cleaned_text) ==
    Transcript(cleaned_text, transcript.model_name, transcript.chunk_index,
               transcript.confidence, transcript.language, transcript.processing_time,
               transcript.raw_text, TRUE)

\* the Transcript that deduplicate_transcript returns
deduplicated_copy(transcript, original_text, cleaned_text) ==
    Transcript(cleaned_text, transcript.model_name, transcript.chunk_index,
               transcript.confidence, transcript.language, transcript.processing_time,
               original_text, TRUE)

\* a text of twelve words, a six-word segment said twice
TwiceSaid ==
    Join(<<<<"a">>, <<"b">>, <<"c">>, <<"a">>, <<"d">>, <<"b">>,
           <<"a">>, <<"b">>, <<"c">>, <<"a">>, <<"d">>, <<"b">>>>)

\* the transcripts a caller holds: fresh ones, an empty one, and one that was
\* deduplicated before (its raw_text differs from its text)
TranscriptPool ==
    { Transcript(<<"a", " ", "a", " ", "b">>, "whisper-tiny", 0, [n |-> 0, d |-> 1],
                 "None", [n |-> 0, d |-> 1], NoText, FALSE),
      Transcript(<<" ", "A", " ", " ", "a", " ">>, "faster-whisper", 3, [n |-> 9, d |-> 10],
                 "en", [n |-> 3, d |-> 2], <<"a", " ", "A", " ", "a">>, TRUE),
      Transcript(<<>>, "whisper-tiny", 1, [n |-> 0, d |-> 1],
                 "None", [n |-> 1, d |-> 4], NoText, FALSE),
      Transcript(TwiceSaid, "whisper-base", 2, [n |-> 1, d |-> 2],
                 "en", [n |-> 5, d |-> 1], NoText, FALSE) }

TranscriptLists == UNION {[1..n -> TranscriptPool] : n \in 0..MaxTranscripts}

\* deduplicate_transcripts(transcripts) was just called
InitTranscript ==
    /\ tGiven \in TranscriptLists
    /\ tInputs = tGiven
    /\ tPc = "loop"
    /\ tI = 0
    /\ tOutputs = <<>>
    /\ DedupIdle
    /\ NormIdle
    /\ RateIdle
    /\ HybridIdle
    /\ SerialIdle
    /\ SummaryIdle
    /\ ExtraIdle

\* deduplicate_transcript(t) for the next t of the comprehension, up to its call
\* of deduplicate_text: original_text = transcript.text
DeduplicateTranscriptCall ==
    /\ tPc = "loop"
    /\ tI < Len(tInputs)
    /\ dText' = tInputs[tI + 1].text
    /\ dPc' = "call"
    /\ dCur' = <<>>
    /\ dWords' = <<>>
    /\ dN' = 0
    /\ dOut' = <<>>
    /\ dLogged' = FALSE
    /\ tPc' = "text"
    /\ UNCHANGED <<tGiven, tInputs, tI, tOutputs>>
    /\ UNCHANGED <<normVars, rateVars, hybridVars, serialVars, summaryVars, extraVars>>

\* deduplicate_text returned: the rest of deduplicate_transcript, and the
\* comprehension taking the new Transcript
DeduplicateTranscriptReturn ==
    /\ tPc = "text"
    /\ dPc = "done"
    /\ tOutputs' = Append(tOutputs, deduplicated_copy(tInputs[tI + 1], dText, dOut))
    /\ tI' = tI + 1
    /\ tPc' = "loop"
    /\ UNCHANGED <<tGiven, tInputs>>
    /\ UNCHANGED <<dedupVars, normVars, rateVars, hybridVars, serialVars, summaryVars, extraVars>>

\* the comprehension is exhausted: return the list
DeduplicateTranscriptsReturn ==
    /\ tPc = "loop"
    /\ tI = Len(tInputs)
    /\ tPc' = "returned"
    /\ UNCHANGED <<tGiven, tInputs, tI, tOutputs>>
    /\ UNCHANGED <<dedupVars, normVars, rateVars, hybridVars, serialVars, summaryVars, extraVars>>

NextTranscript ==
    \/ DeduplicateTranscriptCall
    \/ DedupEnter
    \/ DedupLargeStep
    \/ DedupMediumStep
    \/ DedupSmallStep
    \/ DedupFinish
    \/ DeduplicateTranscriptReturn
    \/ DeduplicateTranscriptsReturn

SpecTranscript == InitTranscript /\ [][NextTranscript]_vars

(***************************************************************************)
(* deduplicate_transcripts applied to its own result                       *)
(***************************************************************************)

\* the most applications in a row
MaxRounds == 3

InitRepeat ==
    /\ tGiven \in TranscriptLists
    /\ tInputs = tGiven
    /\ tPc = "loop"
    /\ tI = 0
    /\ tOutputs = <<>>
    /\ dRound = 1
    /\ dFirst = <<>>
    /\ DedupIdle
    /\ NormIdle
    /\ RateIdle
    /\ HybridIdle
    /\ SerialIdle
    /\ SummaryIdle
    /\ ConfigIdle
    /\ RaceIdle
    /\ DetailIdle
    /\ JobIdle

\* the caller passes the returned list to deduplicate_transcripts again
DeduplicateTranscriptsAgain ==
    /\ tPc = "returned"
    /\ dRound < MaxRounds
    /\ dRound' = dRound + 1
    /\ tInputs' = tOutputs
    /\ tOutputs' = <<>>
    /\ tI' = 0
    /\ tPc' = "loop"
    /\ UNCHANGED <<tGiven, dFirst>>
    /\ UNCHANGED <<dedupVars, normVars, rateVars, hybridVars, serialVars, summaryVars>>
    /\ UNCHANGED <<configVars, raceVars, detailVars, jobVars>>

NextRepeat ==
    \/ DeduplicateTranscriptCall
    \/ DedupEnter
    \/ DedupLargeStep
    \/ DedupMediumStep
    \/ DedupSmallStep
    \/ DedupFinish
    \/ DeduplicateTranscriptReturn
    \/ DeduplicateTranscriptsReturn
    \/ DeduplicateTranscriptsAgain

SpecRepeat == InitRepeat /\ [][NextRepeat]_vars

(***************************************************************************)
(* Properties of the min_n and max_n parameters                            *)
(***************************************************************************)

\* the call has returned for the n-word run said twice, and one copy is gone
RunRemoved(n) ==
    /\ dPc = "done"
    /\ dText = Doubled(n)
    /\ dOut = Join(Run(n))

\* the call has returned for the n-word run said twice, and both copies are kept
RunKept(n) ==
    /\ dPc = "done"
    /\ dText = Doubled(n)
    /\ dOut = Doubled(n)

\* the run lengths whose exact repetition some pass looks for: the single-word
\* pass, the small sweep 4..min_n+1, the medium sweep min(max_n, 20)..5 and the
\* large-segment pass on texts of ten words or more
SweptSizes(lo, hi) ==
    {1} \cup {n \in 1..4 : n > lo} \cup {n \in 5..20 : n <= hi} \cup 6..MaxSegmentSize

\* C21 as claimed: deduplicate_text removes a repeated run of n words only
\* when min_n <= n <= max_n.
C21_RemovesOnlyWithinBounds ==
    \A n \in 1..MaxRun : RunRemoved(n) => (min_n <= n /\ n <= max_n)

\* what the passes do instead: a run of n words said twice loses its second copy
\* exactly when n = 1, or min_n < n <= 4, or 5 <= n <= min(max_n, 20), or n >= 6
\* (the large-segment pass); otherwise the text is returned as it was
RemovesExactlySweptSizes ==
    \A n \in 1..MaxRun :
        (dPc = "done" /\ dText = Doubled(n)) =>
            IF n \in SweptSizes(min_n, max_n) THEN RunRemoved(n) ELSE RunKept(n)


(***************************************************************************)
(* Properties of deduplicate_text                                          *)
(***************************************************************************)

\* some n-gram of `words` is immediately followed by a case-insensitively
\* identical copy of itself
HasRepeat(words, n) ==
    \E i \in 0..(Len(words) - 2 * n) :
        LowerSlice(words, i, i + n) = LowerSlice(words, i + n, i + 2 * n)

\* position p starts a run of case-insensitively equal adjacent words
IsRunHead(words, p) == p = 1 \/ Lower(words[p - 1]) # Lower(words[p])

\* `out` is a subsequence of in[p..] that uses only run heads of `in`, each with
\* the casing it has in `in` (the leftmost embedding exists when any does)
RECURSIVE EmbedsAtRunHeads(_, _, _)
EmbedsAtRunHeads(out, in, p) ==
    IF out = <<>> THEN TRUE
    ELSE LET hits == {q \in p..Len(in) : in[q] = Head(out) /\ IsRunHead(in, q)}
         IN  hits # {}
             /\ EmbedsAtRunHeads(Tail(out), in,
                                 1 + CHOOSE q \in hits : \A r \in hits : q <= r)

KeepsFirstOccurrences(out, in) == EmbedsAtRunHeads(out, in, 1)

\* C5: the output of deduplicate_text contains no 2-gram and no 3-gram that is
\* immediately followed by a case-insensitively identical copy of itself
C5_NoRepeatedShortNgram ==
    dPc = "done" =>
        /\ ~HasRepeat(Split(dOut), 2)
        /\ ~HasRepeat(Split(dOut), 3)

SingleSpacedTrimmed(text) == text = Join(Split(text))

\* no n-gram, for any n >= 1, is immediately followed by a copy of itself
NoRepeat(words) == \A n \in 1..Len(words) : ~HasRepeat(words, n)

\* some window of 10 to 25 words is immediately followed by a window that
\* agrees with it in at least 90% of the positions
HasFuzzyRepeat(words) ==
    \E n \in FuzzyMinLen..MaxSegmentSize :
        \E i \in 0..(Len(words) - 2 * n) :
            10 * Matches(LowerSlice(words, i, i + n),
                         LowerSlice(words, i + n, i + 2 * n)) >= 9 * n

\* C7 as claimed: a single-spaced, trimmed input without any immediately
\* repeated n-gram is returned unchanged
C7_PreservesRepeatFreeText ==
    (dPc = "done" /\ SingleSpacedTrimmed(dText) /\ NoRepeat(Split(dText)))
        => dOut = dText

\* C7 as amended: such an input is returned unchanged when, in addition, no
\* window of 10 to 25 words is followed by a window agreeing with it in at
\* least 90% of the positions
C7_PreservesRepeatFreeNonFuzzyText ==
    (dPc = "done" /\ SingleSpacedTrimmed(dText) /\ NoRepeat(Split(dText))
        /\ ~HasFuzzyRepeat(Split(dText)))
        => dOut = dText

\* a repeat-free input long enough for the large-segment pass came back unchanged
C7_Witness ==
    /\ dPc = "done"
    /\ SingleSpacedTrimmed(dText)
    /\ NoRepeat(Split(dText))
    /\ ~HasFuzzyRepeat(Split(dText))
    /\ Len(Split(dText)) >= 10
    /\ dOut = dText

(***************************************************************************)
(* TextNormalizer (default flags: lowercase, expand_contractions,          *)
(* remove_punctuation, collapse_whitespace; numbers_to_words is off)       *)
(***************************************************************************)

\* str.replace(old, new): the non-overlapping occurrences of old, left to right
RECURSIVE Replace(_, _, _)
Replace(s, old, new) ==
    IF Len(s) < Len(old) THEN s
    ELSE IF SubSeq(s, 1, Len(old)) = old
         THEN new \o Replace(SubSeq(s, Len(old) + 1, Len(s)), old, new)
         ELSE <<s[1]>> \o Replace(Tail(s), old, new)

\* self.contractions, in insertion order
contractions ==
    << << <<"w", "o", "n", "'", "t">>, <<"w", "i", "l", "l", " ", "n", "o", "t">> >>,
       << <<"c", "a", "n", "'", "t">>, <<"c", "a", "n", "n", "o", "t">> >>,
       << <<"n", "'", "t">>, <<" ", "n", "o", "t">> >>,
       << <<"'", "r", "e">>, <<" ", "a", "r", "e">> >>,
       << <<"'", "s">>, <<" ", "i", "s">> >>,
       << <<"'", "d">>, <<" ", "w", "o", "u", "l", "d">> >>,
       << <<"'", "l", "l">>, <<" ", "w", "i", "l", "l">> >>,
       << <<"'", "v", "e">>, <<" ", "h", "a", "v", "e">> >>,
       << <<"'", "m">>, <<" ", "a", "m">> >> >>

\* the for loop of _expand_contractions, from the k-th table entry on
RECURSIVE ExpandFrom(_, _)
ExpandFrom(text, k) ==
    IF k > Len(contractions) THEN text
    ELSE ExpandFrom(Replace(text, contractions[k][1], contractions[k][2]), k + 1)

expand_contractions(text) == ExpandFrom(text, 1)

\* the character-class sweep deleting the characters instead of blanking them
DeletePunctuation(text) ==
    SelectSeq(text, LAMBDA c : IsWordChar(c) \/ IsSpace(c) \/ c = "'")

\* re.sub(r"[^\w\s']", ' ', text)
BlankPunctuation(text) ==
    AsTuple([k \in 1..Len(text) |->
                IF IsWordChar(text[k]) \/ IsSpace(text[k]) \/ text[k] = "'"
                THEN text[k] ELSE " "])

\* the length of the whitespace run of s that starts at position i
SpaceRun(s, i) ==
    Cardinality({j \in i..Len(s) : \A k \in i..j : IsSpace(s[k])})

\* re.sub(r"\s+'|'\s+", ' ', text): scanning left to right, a whitespace run
\* followed by an apostrophe, or an apostrophe followed by a whitespace run,
\* becomes one space; the scan resumes after the match
RECURSIVE BlankApostrophes(_)
BlankApostrophes(s) ==
    IF s = <<>> THEN <<>>
    ELSE IF SpaceRun(s, 1) >= 1 /\ SpaceRun(s, 1) < Len(s) /\ s[SpaceRun(s, 1) + 1] = "'"
         THEN <<" ">> \o BlankApostrophes(SubSeq(s, SpaceRun(s, 1) + 2, Len(s)))
    ELSE IF s[1] = "'" /\ SpaceRun(s, 2) >= 1
         THEN <<" ">> \o BlankApostrophes(SubSeq(s, SpaceRun(s, 2) + 2, Len(s)))
    ELSE <<s[1]>> \o BlankApostrophes(Tail(s))

remove_punctuation(text) == BlankApostrophes(BlankPunctuation(text))

normalize(text) ==
    IF text = <<>> THEN <<>>
    ELSE Strip(CollapseWs(remove_punctuation(expand_contractions(Lower(text)))))

normalize_pair(text1, text2) == <<normalize(text1), normalize(text2)>>

(***************************************************************************)
(* Inputs of normalize                                                     *)
(***************************************************************************)

\* every string of at most MaxChars characters over NormAlphabet
MaxChars == 4

NormAlphabet == {"a", "s", "S", "n", "t", "'", " ", "!"}

NormSamples ==
    { <<"W", "o", "n", "'", "t">>, <<"I", " ", "c", "a", "n", "'", "t", ".">>,
      <<"I", "t", "'", "s", ",", " ", "a">>, <<"w", "e", "'", "r", "e">>,
      <<"I", "'", "d">>, <<"I", "'", "l", "l">>, <<"I", "'", "v", "e">>,
      <<"I", "'", "m">>, <<"a", " ", "-", " ", "b", "?">> }

NormInputs == UNION {[1..n -> NormAlphabet] : n \in 0..MaxChars} \cup NormSamples

InitNorm ==
    /\ nText \in NormInputs
    /\ nPc = "call"
    /\ nOnce = <<>>
    /\ nTwice = <<>>
    /\ nExpanded = <<>>
    /\ nStripped = <<>>
    /\ DedupIdle
    /\ RateIdle
    /\ HybridIdle
    /\ SerialIdle
    /\ TranscriptIdle
    /\ SummaryIdle
    /\ ExtraIdle

\* normalizer.normalize(text)
Normalize ==
    /\ nPc = "call"
    /\ nOnce' = normalize(nText)
    /\ IF nText = <<>>
       THEN UNCHANGED <<nExpanded, nStripped>>
       ELSE /\ nExpanded' = expand_contractions(Lower(nText))
            /\ nStripped' = remove_punctuation(nExpanded')
    /\ nPc' = "once"
    /\ UNCHANGED <<nText, nTwice>>
    /\ UNCHANGED <<dedupVars, rateVars, hybridVars, serialVars, transcriptVars, summaryVars, extraVars>>

\* normalizer.normalize applied to the text it returned
NormalizeAgain ==
    /\ nPc = "once"
    /\ nTwice' = normalize(nOnce)
    /\ nPc' = "twice"
    /\ UNCHANGED <<nText, nOnce, nExpanded, nStripped>>
    /\ UNCHANGED <<dedupVars, rateVars, hybridVars, serialVars, transcriptVars, summaryVars, extraVars>>

NextNorm ==
    \/ Normalize
    \/ NormalizeAgain

SpecNorm == InitNorm /\ [][NextNorm]_vars

\* C4: normalizing an already normalized text changes nothing:
\* normalize(normalize(x)) = normalize(x) for every input x.
C4_NormalizeIdempotent ==
    nPc = "twice" => nTwice = nOnce

(***************************************************************************)
(* Floats as exact rationals                                               *)
(***************************************************************************)

Abs(x) == IF x < 0 THEN -x ELSE x

RECURSIVE GCD(_, _)
GCD(a, b) == IF b = 0 THEN a ELSE GCD(b, a % b)

\* the rational n/d (d > 0) in lowest terms
Rat(n, d) ==
    LET g == GCD(Abs(n), d)
    IN  [n |-> (IF n < 0 THEN -1 ELSE 1) * (Abs(n) \div g), d |-> d \div g]

Zero == Rat(0, 1)

One == Rat(1, 1)

RatLeq(a, b) == a.n * b.d <= b.n * a.d

RatMin(a, b) == IF RatLeq(a, b) THEN a ELSE b

RatMax(a, b) == IF RatLeq(a, b) THEN b ELSE a

RatAdd(a, b) == Rat(a.n * b.d + b.n * a.d, a.d * b.d)

RatSub(a, b) == Rat(a.n * b.d - b.n * a.d, a.d * b.d)

RatMul(a, b) == Rat(a.n * b.n, a.d * b.d)

(***************************************************************************)
(* WERCalculator and CERCalculator (normalize=True, the default)           *)
(***************************************************************************)

Min3(a, b, c) == Min(a, Min(b, c))

\* one row of the Wagner-Fischer table: `row` holds the columns filled so far,
\* `prev` is the row above, x is the reference unit of this row
RECURSIVE NextRow(_, _, _, _)
NextRow(prev, x, b, row) ==
    IF Len(row) = Len(b) + 1 THEN row
    ELSE NextRow(prev, x, b,
                 Append(row, Min3(prev[Len(row) + 1] + 1,
                                  row[Len(row)] + 1,
                                  prev[Len(row)] + (IF x = b[Len(row)] THEN 0 ELSE 1))))

RECURSIVE LevRows(_, _, _, _)
LevRows(a, b, i, prev) ==
    IF i > Len(a) THEN prev[Len(b) + 1]
    ELSE LevRows(a, b, i + 1, NextRow(prev, a[i], b, <<prev[1] + 1>>))

\* S + D + I of the minimum-edit-distance alignment jiwer computes
Levenshtein(a, b) == LevRows(a, b, 1, [k \in 1..(Len(b) + 1) |-> k - 1])

\* jiwer.wer on a normalized pair with a non-empty reference
calculate_wer(reference, hypothesis) ==
    Rat(Levenshtein(Split(reference), Split(hypothesis)), Len(Split(reference)))

\* jiwer.cer on a normalized pair with a non-empty reference
calculate_cer(reference, hypothesis) ==
    Rat(Levenshtein(reference, hypothesis), Len(reference))

\* WERCalculator.calculate with the empty reference scored 0.0 whatever the hypothesis
wer_calculate_lenient(reference, hypothesis, fails) ==
    LET p == normalize_pair(reference, hypothesis)
    IN  IF Strip(p[1]) = <<>> \/ Strip(p[2]) = <<>> THEN Zero
        ELSE IF fails THEN One
        ELSE RatMin(One, RatMax(Zero, calculate_wer(p[1], p[2])))

\* WERCalculator.calculate without the cap at 1.0
wer_calculate_uncapped(reference, hypothesis, fails) ==
    LET p == normalize_pair(reference, hypothesis)
    IN  IF Strip(p[1]) = <<>> THEN (IF Strip(p[2]) = <<>> THEN Zero ELSE One)
        ELSE IF Strip(p[2]) = <<>> THEN One
        ELSE IF fails THEN One
        ELSE calculate_wer(p[1], p[2])

\* WERCalculator.calculate; `fails` says whether calculate_wer raises
wer_calculate(reference, hypothesis, fails) ==
    LET p == normalize_pair(reference, hypothesis)
    IN  IF Strip(p[1]) = <<>> THEN (IF Strip(p[2]) = <<>> THEN Zero ELSE One)
        ELSE IF Strip(p[2]) = <<>> THEN One
        ELSE IF fails THEN One
        ELSE RatMin(One, RatMax(Zero, calculate_wer(p[1], p[2])))

\* CERCalculator.calculate scoring a failed alignment 0.0
cer_calculate_optimistic(reference, hypothesis, fails) ==
    LET p == normalize_pair(reference, hypothesis)
    IN  IF Strip(p[1]) = <<>> THEN (IF Strip(p[2]) = <<>> THEN Zero ELSE One)
        ELSE IF Strip(p[2]) = <<>> THEN One
        ELSE IF fails THEN Zero
        ELSE RatMin(One, RatMax(Zero, calculate_cer(p[1], p[2])))

\* CERCalculator.calculate; `fails` says whether calculate_cer raises
cer_calculate(reference, hypothesis, fails) ==
    LET p == normalize_pair(reference, hypothesis)
    IN  IF Strip(p[1]) = <<>> THEN (IF Strip(p[2]) = <<>> THEN Zero ELSE One)
        ELSE IF Strip(p[2]) = <<>> THEN One
        ELSE IF fails THEN One
        ELSE RatMin(One, RatMax(Zero, calculate_cer(p[1], p[2])))

\* whether the call reaches the try block (the jiwer call)
ReachesAlignment(reference, hypothesis) ==
    /\ Strip(normalize(reference)) # <<>>
    /\ Strip(normalize(hypothesis)) # <<>>

(***************************************************************************)
(* Inputs of the rate calculators                                          *)
(***************************************************************************)

\* every string of at most MaxRateLen characters over RateAlphabet
MaxRateLen == 3

RateAlphabet == {"a", "b", " "}

RateSamples ==
    { <<"!">>, <<" ", "!">>, <<"a", "!">>, <<"A", " ", "b", "!">>,
      <<"a", " ", "b", " ", "a">>, <<"b", " ", "a", " ", "b", " ", "a">>,
      <<"i", "t", "'", "s">> }

RateInputs == UNION {[1..n -> RateAlphabet] : n \in 0..MaxRateLen} \cup RateSamples

InitRate ==
    /\ rRef \in RateInputs
    /\ rHyp \in RateInputs
    /\ rPc = "call"
    /\ rKind = "none"
    /\ rFailed = FALSE
    /\ rOut = Zero
    /\ DedupIdle
    /\ NormIdle
    /\ HybridIdle
    /\ SerialIdle
    /\ TranscriptIdle
    /\ SummaryIdle
    /\ ExtraIdle

\* WERCalculator().calculate(reference, hypothesis)
WerCalculate ==
    /\ rPc = "call"
    /\ \E fails \in BOOLEAN :
          /\ rOut' = wer_calculate(rRef, rHyp, fails)
          /\ rFailed' = (fails /\ ReachesAlignment(rRef, rHyp))
    /\ rKind' = "wer"
    /\ rPc' = "done"
    /\ UNCHANGED <<rRef, rHyp>>
    /\ UNCHANGED <<dedupVars, normVars, hybridVars, serialVars, transcriptVars, summaryVars, extraVars>>

\* CERCalculator().calculate(reference, hypothesis)
CerCalculate ==
    /\ rPc = "call"
    /\ \E fails \in BOOLEAN :
          /\ rOut' = cer_calculate(rRef, rHyp, fails)
          /\ rFailed' = (fails /\ ReachesAlignment(rRef, rHyp))
    /\ rKind' = "cer"
    /\ rPc' = "done"
    /\ UNCHANGED <<rRef, rHyp>>
    /\ UNCHANGED <<dedupVars, normVars, hybridVars, serialVars, transcriptVars, summaryVars, extraVars>>

NextRate ==
    \/ WerCalculate
    \/ CerCalculate

SpecRate == InitRate /\ [][NextRate]_vars

\* unit-cost edit distance by its defining recursion
RECURSIVE EditDistance(_, _)
EditDistance(a, b) ==
    IF a = <<>> THEN Len(b)
    ELSE IF b = <<>> THEN Len(a)
    ELSE Min3(EditDistance(Tail(a), b) + 1,
              EditDistance(a, Tail(b)) + 1,
              EditDistance(Tail(a), Tail(b)) + (IF Head(a) = Head(b) THEN 0 ELSE 1))

\* the units a calculator aligns: words for WER, characters for CER
Units(kind, text) == IF kind = "wer" THEN Split(normalize(text)) ELSE normalize(text)

\* C2: when both normalized forms are non-empty (and the alignment itself does
\* not fail), calculate returns min(1, L/N), L the edit distance of the
\* normalized word (WER) or character (CER) sequences and N the number of
\* reference units; the value lies in [0, 1].
C2_RateIsCappedEditRatio ==
    (rPc = "done" /\ ~rFailed /\ normalize(rRef) # <<>> /\ normalize(rHyp) # <<>>) =>
        /\ rOut = RatMin(One, Rat(EditDistance(Units(rKind, rRef), Units(rKind, rHyp)),
                                  Len(Units(rKind, rRef))))
        /\ RatLeq(Zero, rOut)
        /\ RatLeq(rOut, One)

\* a WER call whose uncapped ratio exceeds 1
C2_Witness ==
    /\ rPc = "done"
    /\ rKind = "wer"
    /\ ~rFailed
    /\ Len(Split(normalize(rRef))) >= 1
    /\ Len(Split(normalize(rHyp))) > 2 * Len(Split(normalize(rRef)))
    /\ rOut = One

\* C3 as stated: calculate("", "") is 0.0, calculate("", h) is 1.0 for every
\* non-empty h, and calculate(r, "") is 1.0 for every non-empty r.
C3_EmptyPolicyForNonEmptyText ==
    rPc = "done" =>
        /\ (rRef = <<>> /\ rHyp = <<>>) => rOut = Zero
        /\ (rRef = <<>> /\ rHyp # <<>>) => rOut = One
        /\ (rRef # <<>> /\ rHyp = <<>>) => rOut = One

\* C3 amended: calculate("", "") is 0.0, calculate("", h) is 1.0 for every h
\* whose normalized form is non-empty, and calculate(r, "") is 1.0 for every r
\* whose normalized form is non-empty.
C3_EmptyPolicyForNonEmptyNormalizedText ==
    rPc = "done" =>
        /\ (rRef = <<>> /\ rHyp = <<>>) => rOut = Zero
        /\ (rRef = <<>> /\ normalize(rHyp) # <<>>) => rOut = One
        /\ (normalize(rRef) # <<>> /\ rHyp = <<>>) => rOut = One

\* a CER call with the empty reference and a hypothesis that normalizes to text
C3_Witness ==
    /\ rPc = "done"
    /\ rKind = "cer"
    /\ rRef = <<>>
    /\ normalize(rHyp) # <<>>
    /\ rOut = One

(***************************************************************************)
(* CERCalculator().calculate_detailed(reference, hypothesis)               *)
(***************************************************************************)

\* abs(len(reference) - len(hypothesis))
AbsDiff(a, b) == IF a >= b THEN a - b ELSE b - a

\* calculate_detailed: normalize_pair, then self.calculate on the normalized
\* texts (which normalizes them once more), then the lengths of the texts that
\* calculate_detailed itself normalized
calculate_detailed(reference, hypothesis, fails) ==
    LET p == normalize_pair(reference, hypothesis)
    IN  [cer |-> cer_calculate(p[1], p[2], fails),
         reference_chars |-> Len(p[1]),
         hypothesis_chars |-> Len(p[2]),
         char_difference |-> AbsDiff(Len(p[1]), Len(p[2]))]

DetailRefs ==
    { <<>>, <<"a", " ", "b">>, <<"A", " ", "b", "!">>, <<"a", " ", "'", "'">>,
      <<"'", "'", "'", "s">>, <<"i", "t", "'", "s">> }

DetailHyps == { <<>>, <<" ">>, <<"a">>, <<"a", " ", "c">>, <<"i", "s">>, <<"a", " ", "B">> }

InitDetail ==
    /\ rRef \in DetailRefs
    /\ rHyp \in DetailHyps
    /\ rPc = "call"
    /\ rKind = "none"
    /\ rFailed = FALSE
    /\ rOut = Zero
    /\ rDetail = <<>>
    /\ DedupIdle
    /\ NormIdle
    /\ HybridIdle
    /\ SerialIdle
    /\ TranscriptIdle
    /\ SummaryIdle
    /\ ConfigIdle
    /\ AgainIdle
    /\ RaceIdle
    /\ JobIdle

\* CERCalculator().calculate_detailed(reference, hypothesis)
CerCalculateDetailed ==
    /\ rPc = "call"
    /\ \E fails \in BOOLEAN :
          /\ rDetail' = <<calculate_detailed(rRef, rHyp, fails)>>
          /\ rOut' = calculate_detailed(rRef, rHyp, fails).cer
          /\ rFailed' = (fails /\ ReachesAlignment(normalize(rRef), normalize(rHyp)))
    /\ rKind' = "cer_detailed"
    /\ rPc' = "done"
    /\ UNCHANGED <<rRef, rHyp>>
    /\ UNCHANGED <<dedupVars, normVars, hybridVars, serialVars, transcriptVars, summaryVars>>
    /\ UNCHANGED <<configVars, againVars, raceVars, jobVars>>

NextDetail ==
    \/ CerCalculate
    \/ CerCalculateDetailed

SpecDetail == InitDetail /\ [][NextDetail]_vars

(***************************************************************************)
(* SemanticSimilarity, HybridScore and ComparisonResult                    *)
(***************************************************************************)

\* Optional[float] = None
None == [n |-> 0, d |-> 0]

\* ComparisonResult._calculate_hybrid_score(alpha)
calculate_hybrid_score(wer, semantic_similarity, a) ==
    RatAdd(RatMul(a, RatSub(One, RatMin(wer, One))),
           RatMul(RatSub(One, a), semantic_similarity))

\* the dataclass constructor and __post_init__; alpha defaults to 0.5
ComparisonResult(chunk_index, normalized_transcript, normalized_caption, wer, cer, semantic_similarity, hybrid_score) ==
    [ chunk_index |-> chunk_index,
      normalized_transcript |-> normalized_transcript,
      normalized_caption |-> normalized_caption,
      wer |-> wer,
      cer |-> cer,
      semantic_similarity |-> semantic_similarity,
      hybrid_score |-> IF hybrid_score = None
                       THEN calculate_hybrid_score(wer, semantic_similarity, Rat(1, 2))
                       ELSE hybrid_score ]

\* HybridScore._calculate_hybrid with the two weights exchanged
calculate_hybrid_swapped(a, wer, semantic) ==
    RatAdd(RatMul(RatSub(One, a), RatSub(One, RatMin(wer, One))),
           RatMul(a, semantic))

\* HybridScore._calculate_hybrid
calculate_hybrid(a, wer, semantic) ==
    RatAdd(RatMul(a, RatSub(One, RatMin(wer, One))),
           RatMul(RatSub(One, a), semantic))

\* _load_model constructing a model whether or not the slot holds one
load_model_always(slot, backend) ==
    IF backend = "ok"
    THEN [model |-> "loaded", attempts |-> 1, built |-> 1, raises |-> FALSE]
    ELSE IF backend = "token_fails"
         THEN [model |-> "loaded", attempts |-> 2, built |-> 1, raises |-> FALSE]
    ELSE [model |-> "none", attempts |-> 2, built |-> 0, raises |-> TRUE]

\* a _load_model that leaves the slot as it is and constructs nothing
load_model_skipped(slot, backend) ==
    [model |-> slot, attempts |-> 0, built |-> 0, raises |-> FALSE]

\* _load_model: the slot afterwards, the constructions attempted, the constructions
\* that returned a model, and whether the second construction's exception leaves
\* the method
load_model(slot, backend) ==
    IF slot # "none"
    THEN [model |-> slot, attempts |-> 0, built |-> 0, raises |-> FALSE]
    ELSE IF backend = "ok"
         THEN [model |-> "loaded", attempts |-> 1, built |-> 1, raises |-> FALSE]
    ELSE IF backend = "token_fails"
         THEN [model |-> "loaded", attempts |-> 2, built |-> 1, raises |-> FALSE]
    ELSE [model |-> "none", attempts |-> 2, built |-> 0, raises |-> TRUE]

\* SemanticSimilarity.calculate entering the try block for every pair
ReachesEncodeAlways(text1, text2) == TRUE

\* whether SemanticSimilarity.calculate reaches the try block (the encode call)
ReachesEncode(text1, text2) ==
    /\ Strip(normalize(text1)) # <<>>
    /\ Strip(normalize(text2)) # <<>>

\* SemanticSimilarity.calculate returning the cosine as the library yields it
semantic_calculate_unclamped(text1, text2, env) ==
    LET p == normalize_pair(text1, text2)
    IN  IF Strip(p[1]) = <<>> \/ Strip(p[2]) = <<>>
        THEN (IF Strip(p[1]) = Strip(p[2]) THEN One ELSE Zero)
        ELSE IF "encode" \in env.fault THEN Zero
        ELSE env.cos

\* SemanticSimilarity.calculate scoring a failed inference 1.0
semantic_calculate_optimistic(text1, text2, env) ==
    LET p == normalize_pair(text1, text2)
    IN  IF Strip(p[1]) = <<>> \/ Strip(p[2]) = <<>>
        THEN (IF Strip(p[1]) = Strip(p[2]) THEN One ELSE Zero)
        ELSE IF "encode" \in env.fault THEN One
        ELSE RatMax(Zero, RatMin(One, env.cos))

\* SemanticSimilarity.calculate after _load_model returned; env.fault holds
\* "encode" when encode or cos_sim raises, env.cos is the cosine they yield
semantic_calculate(text1, text2, env) ==
    LET p == normalize_pair(text1, text2)
    IN  IF Strip(p[1]) = <<>> \/ Strip(p[2]) = <<>>
        THEN (IF Strip(p[1]) = Strip(p[2]) THEN One ELSE Zero)
        ELSE IF "encode" \in env.fault THEN Zero
        ELSE RatMax(Zero, RatMin(One, env.cos))

\* HybridScore.compare storing norm_ref as the transcript and norm_hyp as the caption
compare_swapped(a, reference, hypothesis, chunk_index, env) ==
    LET wer == wer_calculate(reference, hypothesis, "wer" \in env.fault)
        cer == cer_calculate(reference, hypothesis, "cer" \in env.fault)
        semantic == semantic_calculate(reference, hypothesis, env)
        norm == normalize_pair(reference, hypothesis)
    IN  ComparisonResult(chunk_index, norm[1], norm[2], wer, cer, semantic,
                         calculate_hybrid(a, wer, semantic))

\* HybridScore.compare -> HybridScore.calculate -> ComparisonResult(...),
\* for a call in which _load_model does not raise
compare(a, reference, hypothesis, chunk_index, env) ==
    LET wer == wer_calculate(reference, hypothesis, "wer" \in env.fault)
        cer == cer_calculate(reference, hypothesis, "cer" \in env.fault)
        semantic == semantic_calculate(reference, hypothesis, env)
        norm == normalize_pair(reference, hypothesis)
    IN  ComparisonResult(chunk_index, norm[2], norm[1], wer, cer, semantic,
                         calculate_hybrid(a, wer, semantic))

\* the loop body of compare_all calling compare without chunk_index (its default 0)
compare_all_item_unindexed(a, reference_texts, hypothesis_texts, i, env) ==
    compare(a, reference_texts[i + 1], hypothesis_texts[i + 1], 0, env)

\* the loop body of compare_all for the i-th (0-based) pair of the zip:
\* self.compare(ref, hyp, chunk_index=i)
compare_all_item(a, reference_texts, hypothesis_texts, i, env) ==
    compare(a, reference_texts[i + 1], hypothesis_texts[i + 1], i, env)

\* the length check of compare_all, accepting every pair of lists
lengths_match_any(reference_texts, hypothesis_texts) == TRUE

\* the length check of compare_all
lengths_match(reference_texts, hypothesis_texts) ==
    Len(reference_texts) = Len(hypothesis_texts)

(***************************************************************************)
(* Inputs and environment of the scorer                                    *)
(***************************************************************************)

\* the longest batch
MaxBatch == 2

\* the values HybridScore(alpha=...) is constructed with; 0.5 is the default
Alphas == {Rat(1, 2), Rat(1, 4)}

Backends == {"ok", "token_fails", "fails"}

\* <<reference, hypothesis>>
PairPool ==
    { << <<"A", " ", "b", "!">>, <<"a", " ", "c">> >>,
      << <<>>, <<>> >>,
      << <<"a">>, <<"b", " ", "b", " ", "b">> >> }

PairSeqs == UNION {[1..n -> PairPool] : n \in 0..MaxBatch}

Refs(ps) == [k \in 1..Len(ps) |-> ps[k][1]]

Hyps(ps) == [k \in 1..Len(ps) |-> ps[k][2]]

\* the raw values util.cos_sim(...).item() yields in the model
CosValues == {Rat(-1, 2), Rat(3, 4), Rat(3, 2)}

\* what the library calls of one pair do: which of them raise, and the cosine
PairEnvs ==
    {[fault |-> {}, cos |-> c] : c \in CosValues}
        \cup {[fault |-> f, cos |-> Rat(3, 4)] :
                f \in {{"wer"}, {"cer"}, {"encode"}, {"wer", "cer", "encode"}}}

SemEnvs == {e \in PairEnvs : e.fault \subseteq {"encode"}}

\* field values a ComparisonResult is constructed with directly
CtorRates == {Zero, Rat(1, 3), One, Rat(3, 2)}

CtorSims == {Zero, Rat(3, 4), One}

InitHybrid ==
    /\ alpha \in Alphas
    /\ model = "none"
    /\ hBackend \in Backends
    /\ hOp = "none"
    /\ hRefs = <<>>
    /\ hHyps = <<>>
    /\ hPc = "idle"
    /\ hI = 0
    /\ hResults = <<>>
    /\ hRaised = "none"
    /\ hEnvs = <<>>
    /\ hLoads = 0
    /\ hEncodes = 0
    /\ hBuilt = 0
    /\ hCalls = 0
    /\ DedupIdle
    /\ NormIdle
    /\ RateIdle
    /\ SerialIdle
    /\ TranscriptIdle
    /\ SummaryIdle
    /\ ExtraIdle

\* compare_all(reference_texts, hypothesis_texts) up to the for loop; lists of
\* equal length hold the pairs of one sequence of PairSeqs
CompareAllCall ==
    /\ hPc = "idle"
    /\ \E ps \in PairSeqs, qs \in PairSeqs :
          /\ Len(ps) = Len(qs) => ps = qs
          /\ hRefs' = Refs(ps)
          /\ hHyps' = Hyps(qs)
          /\ IF ~lengths_match(Refs(ps), Hyps(qs))
             THEN hPc' = "raised" /\ hRaised' = "ValueError"
             ELSE hPc' = "loop" /\ hRaised' = "none"
    /\ hOp' = "compare_all"
    /\ UNCHANGED <<alpha, model, hBackend, hI, hResults, hEnvs, hLoads, hEncodes, hBuilt, hCalls>>
    /\ UNCHANGED <<dedupVars, normVars, rateVars, serialVars, transcriptVars, summaryVars, extraVars>>

\* one iteration of the for loop over zip(reference_texts, hypothesis_texts):
\* result = self.compare(ref, hyp, chunk_index=i); results.append(result)
CompareStep ==
    /\ hOp = "compare_all"
    /\ hPc = "loop"
    /\ hI < Min(Len(hRefs), Len(hHyps))
    /\ \E env \in PairEnvs :
          LET lo == load_model(model, hBackend)
          IN  /\ model' = lo.model
              /\ hLoads' = hLoads + lo.attempts
              /\ hBuilt' = hBuilt + lo.built
              /\ IF lo.raises
                 THEN /\ hPc' = "raised"
                      /\ hRaised' = "LoadError"
                      /\ hResults' = <<>>
                      /\ UNCHANGED <<hI, hEnvs, hEncodes>>
                 ELSE /\ hResults' = Append(hResults,
                                            compare_all_item(alpha, hRefs, hHyps, hI, env))
                      /\ hEnvs' = Append(hEnvs, env)
                      /\ hI' = hI + 1
                      /\ hEncodes' = hEncodes +
                            (IF ReachesEncode(hRefs[hI + 1], hHyps[hI + 1]) THEN 1 ELSE 0)
                      /\ UNCHANGED <<hPc, hRaised>>
    /\ UNCHANGED <<alpha, hBackend, hOp, hRefs, hHyps, hCalls>>
    /\ UNCHANGED <<dedupVars, normVars, rateVars, serialVars, transcriptVars, summaryVars, extraVars>>

\* the for loop is exhausted: return results
CompareAllReturn ==
    /\ hOp = "compare_all"
    /\ hPc = "loop"
    /\ hI = Min(Len(hRefs), Len(hHyps))
    /\ hPc' = "returned"
    /\ UNCHANGED <<alpha, model, hBackend, hOp, hRefs, hHyps, hI, hResults, hRaised,
                   hEnvs, hLoads, hEncodes, hBuilt, hCalls>>
    /\ UNCHANGED <<dedupVars, normVars, rateVars, serialVars, transcriptVars, summaryVars, extraVars>>

\* SemanticSimilarity.calculate_batch(text_pairs) up to the for loop
CalculateBatchCall ==
    /\ hPc = "idle"
    /\ \E ps \in PairSeqs :
          /\ hRefs' = Refs(ps)
          /\ hHyps' = Hyps(ps)
    /\ LET lo == load_model(model, hBackend)
       IN  /\ model' = lo.model
           /\ hLoads' = hLoads + lo.attempts
           /\ hBuilt' = hBuilt + lo.built
           /\ IF lo.raises
              THEN hPc' = "raised" /\ hRaised' = "LoadError"
              ELSE hPc' = "loop" /\ hRaised' = "none"
    /\ hOp' = "calculate_batch"
    /\ UNCHANGED <<alpha, hBackend, hI, hResults, hEnvs, hEncodes, hCalls>>
    /\ UNCHANGED <<dedupVars, normVars, rateVars, serialVars, transcriptVars, summaryVars, extraVars>>

\* one iteration: score = self.calculate(text1, text2); results.append(score)
CalculateBatchStep ==
    /\ hOp = "calculate_batch"
    /\ hPc = "loop"
    /\ hI < Len(hRefs)
    /\ \E env \in SemEnvs :
          LET lo == load_model(model, hBackend)
          IN  /\ model' = lo.model
              /\ hLoads' = hLoads + lo.attempts
              /\ hBuilt' = hBuilt + lo.built
              /\ IF lo.raises
                 THEN /\ hPc' = "raised"
                      /\ hRaised' = "LoadError"
                      /\ hResults' = <<>>
                      /\ UNCHANGED <<hI, hEnvs, hEncodes>>
                 ELSE /\ hResults' = Append(hResults,
                                            semantic_calculate(hRefs[hI + 1], hHyps[hI + 1], env))
                      /\ hEnvs' = Append(hEnvs, env)
                      /\ hI' = hI + 1
                      /\ hEncodes' = hEncodes +
                            (IF ReachesEncode(hRefs[hI + 1], hHyps[hI + 1]) THEN 1 ELSE 0)
                      /\ UNCHANGED <<hPc, hRaised>>
    /\ UNCHANGED <<alpha, hBackend, hOp, hRefs, hHyps, hCalls>>
    /\ UNCHANGED <<dedupVars, normVars, rateVars, serialVars, transcriptVars, summaryVars, extraVars>>

\* the for loop is exhausted: return results
CalculateBatchReturn ==
    /\ hOp = "calculate_batch"
    /\ hPc = "loop"
    /\ hI = Len(hRefs)
    /\ hPc' = "returned"
    /\ UNCHANGED <<alpha, model, hBackend, hOp, hRefs, hHyps, hI, hResults, hRaised,
                   hEnvs, hLoads, hEncodes, hBuilt, hCalls>>
    /\ UNCHANGED <<dedupVars, normVars, rateVars, serialVars, transcriptVars, summaryVars, extraVars>>

\* ComparisonResult(chunk_index, ..., wer, cer, semantic_similarity) with no hybrid_score
ConstructResult ==
    /\ hPc = "idle"
    /\ \E wer \in CtorRates, cer \in CtorRates, semantic_similarity \in CtorSims :
          hResults' = <<ComparisonResult(0, <<>>, <<>>, wer, cer, semantic_similarity, None)>>
    /\ hOp' = "construct"
    /\ hPc' = "returned"
    /\ UNCHANGED <<alpha, model, hBackend, hRefs, hHyps, hI, hRaised, hEnvs, hLoads, hEncodes,
                   hBuilt, hCalls>>
    /\ UNCHANGED <<dedupVars, normVars, rateVars, serialVars, transcriptVars, summaryVars, extraVars>>

NextHybrid ==
    \/ CompareAllCall
    \/ CompareStep
    \/ CompareAllReturn
    \/ CalculateBatchCall
    \/ CalculateBatchStep
    \/ CalculateBatchReturn
    \/ ConstructResult

SpecHybrid == InitHybrid /\ [][NextHybrid]_vars

(***************************************************************************)
(* One SemanticSimilarity object called again and again                    *)
(***************************************************************************)

\* the number of calls after which the caller makes no further call
MaxCalls == 3

\* the pairs SemanticSimilarity.calculate is called with directly: the pool and
\* pairs of which exactly one text normalizes to the empty string
CallPairs ==
    PairPool \cup { << <<"!">>, <<"a">> >>, << <<"a", " ", "b">>, <<" ">> >> }

InitLifecycle ==
    /\ alpha = Rat(1, 2)
    /\ model = "none"
    /\ hBackend \in Backends
    /\ hOp = "none"
    /\ hRefs = <<>>
    /\ hHyps = <<>>
    /\ hPc = "idle"
    /\ hI = 0
    /\ hResults = <<>>
    /\ hRaised = "none"
    /\ hEnvs = <<>>
    /\ hLoads = 0
    /\ hEncodes = 0
    /\ hBuilt = 0
    /\ hCalls = 0
    /\ DedupIdle
    /\ NormIdle
    /\ RateIdle
    /\ SerialIdle
    /\ TranscriptIdle
    /\ SummaryIdle
    /\ ExtraIdle

\* SemanticSimilarity.calculate(text1, text2) called by itself
SemanticCalculate ==
    /\ hPc = "idle"
    /\ \E p \in CallPairs, env \in SemEnvs :
          LET lo == load_model(model, hBackend)
          IN  /\ hRefs' = <<p[1]>>
              /\ hHyps' = <<p[2]>>
              /\ model' = lo.model
              /\ hLoads' = hLoads + lo.attempts
              /\ hBuilt' = hBuilt + lo.built
              /\ IF lo.raises
                 THEN /\ hPc' = "raised"
                      /\ hRaised' = "LoadError"
                      /\ UNCHANGED <<hI, hResults, hEnvs, hEncodes>>
                 ELSE /\ hResults' = <<semantic_calculate(p[1], p[2], env)>>
                      /\ hEnvs' = <<env>>
                      /\ hI' = 1
                      /\ hEncodes' = hEncodes + (IF ReachesEncode(p[1], p[2]) THEN 1 ELSE 0)
                      /\ hPc' = "returned"
                      /\ hRaised' = "none"
    /\ hOp' = "calculate"
    /\ UNCHANGED <<alpha, hBackend, hCalls>>
    /\ UNCHANGED <<dedupVars, normVars, rateVars, serialVars, transcriptVars, summaryVars, extraVars>>

\* SemanticSimilarity.unload_model()
UnloadModel ==
    /\ hPc = "idle"
    /\ model' = "none"
    /\ hOp' = "unload_model"
    /\ hPc' = "returned"
    /\ UNCHANGED <<alpha, hBackend, hRefs, hHyps, hI, hResults, hRaised, hEnvs, hLoads,
                   hEncodes, hBuilt, hCalls>>
    /\ UNCHANGED <<dedupVars, normVars, rateVars, serialVars, transcriptVars, summaryVars, extraVars>>

\* the call has ended and the caller goes on to its next call on the same object;
\* the arguments, the results and the counts of the ended call are dropped
CallEnds ==
    /\ hPc \in {"returned", "raised"}
    /\ hCalls < MaxCalls
    /\ hCalls' = hCalls + 1
    /\ hOp' = "none"
    /\ hRefs' = <<>>
    /\ hHyps' = <<>>
    /\ hPc' = "idle"
    /\ hI' = 0
    /\ hResults' = <<>>
    /\ hRaised' = "none"
    /\ hEnvs' = <<>>
    /\ hLoads' = 0
    /\ hEncodes' = 0
    /\ hBuilt' = 0
    /\ UNCHANGED <<alpha, model, hBackend>>
    /\ UNCHANGED <<dedupVars, normVars, rateVars, serialVars, transcriptVars, summaryVars, extraVars>>

NextLifecycle ==
    \/ SemanticCalculate
    \/ CalculateBatchCall
    \/ CalculateBatchStep
    \/ CalculateBatchReturn
    \/ UnloadModel
    \/ CallEnds

SpecLifecycle == InitLifecycle /\ [][NextLifecycle]_vars

(***************************************************************************)
(* SemanticSimilarity.calculate on one thread, unload_model on another     *)
(***************************************************************************)

\* the most unload_model calls the other thread makes
MaxUnloads == 2

\* the try block working on the model the call loaded, whatever the slot holds now
try_encode_loaded(slot, text1, text2, env) == semantic_calculate(text1, text2, env)

\* the try block of calculate for a pair that reached it: self._model.encode when
\* the slot holds None raises AttributeError, which the except clause turns into 0.0
try_encode(slot, text1, text2, env) ==
    IF slot = "none" THEN Zero ELSE semantic_calculate(text1, text2, env)

InitRace ==
    /\ alpha = Rat(1, 2)
    /\ model = "none"
    /\ hBackend \in Backends
    /\ hOp = "none"
    /\ hRefs = <<>>
    /\ hHyps = <<>>
    /\ hPc = "idle"
    /\ hI = 0
    /\ hResults = <<>>
    /\ hRaised = "none"
    /\ hEnvs = <<>>
    /\ hLoads = 0
    /\ hEncodes = 0
    /\ hBuilt = 0
    /\ hCalls = 0
    /\ cPc = "call"
    /\ cSeen = "unread"
    /\ uCount = 0
    /\ DedupIdle
    /\ NormIdle
    /\ RateIdle
    /\ SerialIdle
    /\ TranscriptIdle
    /\ SummaryIdle
    /\ ConfigIdle
    /\ AgainIdle
    /\ DetailIdle
    /\ JobIdle

\* calculate(text1, text2): self._load_model()
CalculateLoad ==
    /\ cPc = "call"
    /\ \E p \in CallPairs, env \in SemEnvs :
          LET lo == load_model(model, hBackend)
          IN  /\ hRefs' = <<p[1]>>
              /\ hHyps' = <<p[2]>>
              /\ hEnvs' = <<env>>
              /\ model' = lo.model
              /\ hLoads' = hLoads + lo.attempts
              /\ hBuilt' = hBuilt + lo.built
              /\ IF lo.raises
                 THEN /\ cPc' = "raised"
                      /\ hPc' = "raised"
                      /\ hRaised' = "LoadError"
                 ELSE /\ cPc' = "loaded"
                      /\ UNCHANGED <<hPc, hRaised>>
    /\ hOp' = "calculate"
    /\ UNCHANGED <<alpha, hBackend, hI, hResults, hEncodes, hCalls, cSeen, uCount>>
    /\ UNCHANGED <<dedupVars, normVars, rateVars, serialVars, transcriptVars, summaryVars>>
    /\ UNCHANGED <<configVars, againVars, detailVars, jobVars>>

\* calculate: normalize_pair and the empty-text return
CalculateNormalize ==
    /\ cPc = "loaded"
    /\ IF ReachesEncode(hRefs[1], hHyps[1])
       THEN /\ cPc' = "normalized"
            /\ UNCHANGED <<hPc, hI, hResults>>
       ELSE /\ hResults' = <<semantic_calculate(hRefs[1], hHyps[1], hEnvs[1])>>
            /\ hI' = 1
            /\ cPc' = "returned"
            /\ hPc' = "returned"
    /\ UNCHANGED <<alpha, model, hBackend, hOp, hRefs, hHyps, hRaised, hEnvs, hLoads>>
    /\ UNCHANGED <<hEncodes, hBuilt, hCalls, cSeen, uCount>>
    /\ UNCHANGED <<dedupVars, normVars, rateVars, serialVars, transcriptVars, summaryVars>>
    /\ UNCHANGED <<configVars, againVars, detailVars, jobVars>>

\* calculate: the try block (encode, cos_sim, clamp) and its except clause
CalculateEncode ==
    /\ cPc = "normalized"
    /\ cSeen' = model
    /\ hResults' = <<try_encode(model, hRefs[1], hHyps[1], hEnvs[1])>>
    /\ hEncodes' = hEncodes + (IF model = "none" THEN 0 ELSE 1)
    /\ hI' = 1
    /\ cPc' = "returned"
    /\ hPc' = "returned"
    /\ UNCHANGED <<alpha, model, hBackend, hOp, hRefs, hHyps, hRaised, hEnvs, hLoads>>
    /\ UNCHANGED <<hBuilt, hCalls, uCount>>
    /\ UNCHANGED <<dedupVars, normVars, rateVars, serialVars, transcriptVars, summaryVars>>
    /\ UNCHANGED <<configVars, againVars, detailVars, jobVars>>

\* unload_model() on another thread, at any point of the calculate call
ConcurrentUnload ==
    /\ cPc # "off"
    /\ uCount < MaxUnloads
    /\ model' = "none"
    /\ uCount' = uCount + 1
    /\ UNCHANGED <<alpha, hBackend, hOp, hRefs, hHyps, hPc, hI, hResults, hRaised, hEnvs>>
    /\ UNCHANGED <<hLoads, hEncodes, hBuilt, hCalls, cPc, cSeen>>
    /\ UNCHANGED <<dedupVars, normVars, rateVars, serialVars, transcriptVars, summaryVars>>
    /\ UNCHANGED <<configVars, againVars, detailVars, jobVars>>

NextRace ==
    \/ CalculateLoad
    \/ CalculateNormalize
    \/ CalculateEncode
    \/ ConcurrentUnload

SpecRace == InitRace /\ [][NextRace]_vars

(***************************************************************************)
(* HybridScore.compare and the serialization of its ComparisonResult       *)
(***************************************************************************)

\* the number of decimals to_dict rounds to
Digits == 4

RECURSIVE Pow10(_)
Pow10(k) == IF k = 0 THEN 1 ELSE 10 * Pow10(k - 1)

\* round(x, ndigits) for x >= 0: the nearest multiple of 10^-ndigits, a tie going
\* to the even multiple
round(x, ndigits) ==
    LET scaled == x.n * Pow10(ndigits)
        q == scaled \div x.d
        twice == 2 * (scaled % x.d)
    IN  IF twice > x.d \/ (twice = x.d /\ q % 2 = 1)
        THEN Rat(q + 1, Pow10(ndigits))
        ELSE Rat(q, Pow10(ndigits))

\* Python truthiness of an Optional[float]: None and 0.0 are falsy
Truthy(x) == x # None /\ x.n # 0

\* ComparisonResult.to_dict (computed_at, a timestamp, is left out)
to_dict(r) ==
    [chunk_index |-> r.chunk_index,
     normalized_transcript |-> r.normalized_transcript,
     normalized_caption |-> r.normalized_caption,
     wer |-> round(r.wer, Digits),
     cer |-> round(r.cer, Digits),
     semantic_similarity |-> round(r.semantic_similarity, Digits),
     hybrid_score |-> IF Truthy(r.hybrid_score) THEN round(r.hybrid_score, Digits) ELSE None]

\* ComparisonResult.from_dict
from_dict(data) ==
    ComparisonResult(data.chunk_index, data.normalized_transcript, data.normalized_caption,
                     data.wer, data.cer, data.semantic_similarity, data.hybrid_score)

\* the values of alpha in [0, 1] a HybridScore is constructed with
UnitAlphas == {Zero, Rat(1, 4), Rat(1, 2), One}

\* the chunk_index arguments of compare
ChunkIndexes == {0, 1}

InitSerial ==
    /\ alpha \in UnitAlphas
    /\ model = "none"
    /\ hBackend \in Backends
    /\ hOp = "none"
    /\ hRefs = <<>>
    /\ hHyps = <<>>
    /\ hPc = "idle"
    /\ hI = 0
    /\ hResults = <<>>
    /\ hRaised = "none"
    /\ hEnvs = <<>>
    /\ hLoads = 0
    /\ hEncodes = 0
    /\ hBuilt = 0
    /\ hCalls = 0
    /\ sPc = "result"
    /\ sDict = <<>>
    /\ sBack = <<>>
    /\ DedupIdle
    /\ NormIdle
    /\ RateIdle
    /\ TranscriptIdle
    /\ SummaryIdle
    /\ ExtraIdle

\* the pairs compare is called with directly: those of calculate and a pair whose
\* reference is longer than its hypothesis
ComparePairs == CallPairs \cup { << <<"a", " ", "B">>, <<"A", ".">> >> }

\* HybridScore.compare(reference, hypothesis, chunk_index) called by itself
Compare ==
    /\ hPc = "idle"
    /\ \E p \in ComparePairs, chunk_index \in ChunkIndexes, env \in PairEnvs :
          LET lo == load_model(model, hBackend)
          IN  /\ hRefs' = <<p[1]>>
              /\ hHyps' = <<p[2]>>
              /\ model' = lo.model
              /\ hLoads' = hLoads + lo.attempts
              /\ hBuilt' = hBuilt + lo.built
              /\ IF lo.raises
                 THEN /\ hPc' = "raised"
                      /\ hRaised' = "LoadError"
                      /\ UNCHANGED <<hI, hResults, hEnvs, hEncodes>>
                 ELSE /\ hResults' = <<compare(alpha, p[1], p[2], chunk_index, env)>>
                      /\ hEnvs' = <<env>>
                      /\ hI' = 1
                      /\ hEncodes' = hEncodes + (IF ReachesEncode(p[1], p[2]) THEN 1 ELSE 0)
                      /\ hPc' = "returned"
                      /\ hRaised' = "none"
    /\ hOp' = "compare"
    /\ UNCHANGED <<alpha, hBackend, hCalls>>
    /\ UNCHANGED <<dedupVars, normVars, rateVars, serialVars, transcriptVars, summaryVars, extraVars>>

\* r.to_dict() for the result r that compare returned
ToDict ==
    /\ hOp = "compare"
    /\ hPc = "returned"
    /\ sPc = "result"
    /\ sDict' = <<to_dict(hResults[1])>>
    /\ sPc' = "dict"
    /\ UNCHANGED sBack
    /\ UNCHANGED <<dedupVars, normVars, rateVars, hybridVars, transcriptVars, summaryVars, extraVars>>

\* ComparisonResult.from_dict(d) for the dict d that to_dict returned
FromDict ==
    /\ sPc = "dict"
    /\ sBack' = <<from_dict(sDict[1])>>
    /\ sPc' = "restored"
    /\ UNCHANGED sDict
    /\ UNCHANGED <<dedupVars, normVars, rateVars, hybridVars, transcriptVars, summaryVars, extraVars>>

NextSerial ==
    \/ Compare
    \/ ToDict
    \/ FromDict

SpecSerial == InitSerial /\ [][NextSerial]_vars

(***************************************************************************)
(* MetricsSummary.from_results                                             *)
(***************************************************************************)

\* the longest list of results
MaxResults == 3

\* the outcome of a statistics function that raises StatisticsError
StatisticsError == [n |-> 1, d |-> 0]

RECURSIVE RatSum(_)
RatSum(data) == IF data = <<>> THEN Zero ELSE RatAdd(Head(data), RatSum(Tail(data)))

\* statistics.mean(data)
mean(data) ==
    IF data = <<>> THEN StatisticsError
    ELSE LET total == RatSum(data) IN Rat(total.n, total.d * Len(data))

\* the non-negative number whose square is x
sqrt(x) == [square |-> x]

\* statistics.stdev(data): the square root of the sample variance
stdev(data) ==
    IF Len(data) < 2 THEN StatisticsError
    ELSE LET c == mean(data)
             squares == [k \in 1..Len(data) |->
                            RatMul(RatSub(data[k], c), RatSub(data[k], c))]
             total == RatSum(squares)
         IN  sqrt(Rat(total.n, total.d * (Len(data) - 1)))

\* min(data) taking the first element
minimum_first(data) == data[1]

RECURSIVE minimum(_)
\* min(data) for a non-empty list
minimum(data) ==
    IF Len(data) = 1 THEN data[1] ELSE RatMin(data[1], minimum(Tail(data)))

RECURSIVE maximum(_)
\* max(data) for a non-empty list
maximum(data) ==
    IF Len(data) = 1 THEN data[1] ELSE RatMax(data[1], maximum(Tail(data)))

\* MetricsSummary.from_results(results)
from_results(results) ==
    IF results = <<>>
    THEN [avg_wer |-> Zero, avg_cer |-> Zero, avg_semantic_similarity |-> Zero,
          avg_hybrid_score |-> Zero, min_wer |-> Zero, max_wer |-> Zero,
          std_wer |-> sqrt(Zero), min_cer |-> Zero, max_cer |-> Zero,
          std_cer |-> sqrt(Zero), total_chunks |-> 0]
    ELSE LET wers == [k \in 1..Len(results) |-> results[k].wer]
             cers == [k \in 1..Len(results) |-> results[k].cer]
             sims == [k \in 1..Len(results) |-> results[k].semantic_similarity]
             scores == [k \in 1..Len(results) |-> results[k].hybrid_score]
             hybrids == SelectSeq(scores, LAMBDA x : x # None)
         IN  [avg_wer |-> mean(wers),
              avg_cer |-> mean(cers),
              avg_semantic_similarity |-> mean(sims),
              avg_hybrid_score |-> IF hybrids # <<>> THEN mean(hybrids) ELSE Zero,
              min_wer |-> minimum(wers),
              max_wer |-> maximum(wers),
              std_wer |-> IF Len(wers) > 1 THEN stdev(wers) ELSE sqrt(Zero),
              min_cer |-> minimum(cers),
              max_cer |-> maximum(cers),
              std_cer |-> IF Len(cers) > 1 THEN stdev(cers) ELSE sqrt(Zero),
              total_chunks |-> Len(results)]

\* whether a statistics function raised while the summary was computed
SummaryRaises(summary) ==
    \E f \in DOMAIN summary \ {"total_chunks"} : summary[f] = StatisticsError

\* the results a summary is computed from: <<wer, cer, semantic_similarity>> of
\* results constructed without an explicit hybrid_score
SummaryMetrics ==
    { <<Zero, Zero, One>>,
      <<Rat(1, 2), Rat(1, 3), Rat(3, 4)>>,
      <<One, One, Zero>>,
      <<Rat(3, 2), Rat(1, 4), Rat(3, 4)>>,
      <<Rat(1, 3), Rat(2, 3), Zero>> }

SummaryPool == {ComparisonResult(0, <<>>, <<>>, t[1], t[2], t[3], None) : t \in SummaryMetrics}

InitSummary ==
    /\ mPc = "call"
    /\ mResults \in UNION {[1..n -> SummaryPool] : n \in 0..MaxResults}
    /\ mSummary = <<>>
    /\ DedupIdle
    /\ NormIdle
    /\ RateIdle
    /\ HybridIdle
    /\ SerialIdle
    /\ TranscriptIdle
    /\ ExtraIdle

\* MetricsSummary.from_results(results)
FromResults ==
    /\ mPc = "call"
    /\ LET summary == from_results(mResults)
       IN  IF SummaryRaises(summary)
           THEN mPc' = "raised" /\ mSummary' = <<>>
           ELSE mPc' = "returned" /\ mSummary' = <<summary>>
    /\ UNCHANGED mResults
    /\ UNCHANGED <<dedupVars, normVars, rateVars, hybridVars, serialVars, transcriptVars, extraVars>>

NextSummary == FromResults

SpecSummary == InitSummary /\ [][NextSummary]_vars

(***************************************************************************)
(* Properties of the scorer                                                *)
(***************************************************************************)

\* a*(1 - min(w, 1)) + (1 - a)*s as one fraction
WeightedScore(a, w, s) ==
    LET m == IF w.n <= w.d THEN w ELSE [n |-> 1, d |-> 1]
    IN  Rat(a.n * (m.d - m.n) * s.d + (a.d - a.n) * s.n * m.d, a.d * m.d * s.d)

\* the rate of a pair when the alignment does not fail: the empty-input policy,
\* else the capped edit ratio
CleanRate(kind, reference, hypothesis) ==
    LET r == Units(kind, reference)
        h == Units(kind, hypothesis)
    IN  IF r = <<>> THEN (IF h = <<>> THEN Zero ELSE One)
        ELSE IF h = <<>> THEN One
        ELSE RatMin(One, Rat(EditDistance(r, h), Len(r)))

\* the similarity of a pair when inference does not fail and yields cosine cos
CleanSemantic(text1, text2, cos) ==
    LET t1 == normalize(text1)
        t2 == normalize(text2)
    IN  IF t1 = <<>> \/ t2 = <<>> THEN (IF t1 = t2 THEN One ELSE Zero)
        ELSE IF cos.n < 0 THEN Zero
        ELSE IF cos.n > cos.d THEN One
        ELSE cos

\* CleanRate and the reach of the library calls, tabulated over the pool
PoolRate == [kind \in {"wer", "cer"}, p \in PairPool |-> CleanRate(kind, p[1], p[2])]

PoolEmptyFree == [p \in PairPool |-> normalize(p[1]) # <<>> /\ normalize(p[2]) # <<>>]

PoolSemantic ==
    [p \in PairPool, cos \in CosValues |-> CleanSemantic(p[1], p[2], cos)]

\* the k-th pair of the batch
PairAt(k) == <<hRefs[k], hHyps[k]>>

Ended == hPc \in {"returned", "raised"}

\* C1: every ComparisonResult's hybrid_score equals
\* alpha*(1 - min(wer, 1)) + (1 - alpha)*semantic_similarity for the wer and
\* semantic_similarity stored on the same result, with the scorer's alpha for
\* results of compare / compare_all and alpha = 0.5 for a result constructed
\* without an explicit hybrid_score.
C1_HybridScoreFromStoredFields ==
    /\ hOp = "compare_all" =>
          \A k \in 1..Len(hResults) :
              hResults[k].hybrid_score =
                  WeightedScore(alpha, hResults[k].wer, hResults[k].semantic_similarity)
    /\ hOp = "construct" =>
          \A k \in 1..Len(hResults) :
              hResults[k].hybrid_score =
                  WeightedScore(Rat(1, 2), hResults[k].wer, hResults[k].semantic_similarity)

\* compare_all with a non-default alpha returned a result whose word accuracy and
\* similarity differ
C1_Witness ==
    /\ hOp = "compare_all"
    /\ hPc = "returned"
    /\ alpha = Rat(1, 4)
    /\ Len(hResults) = 2
    /\ hResults[2].wer = Rat(1, 2)
    /\ hResults[2].semantic_similarity = Rat(3, 4)
    /\ hResults[2].hybrid_score = Rat(11, 16)

\* C8: compare_all with lists of different lengths ends with ValueError before
\* any pair is scored: no result is produced, the embedding model is neither
\* loaded nor invoked, and no (truncated) list is returned.
C8_LengthMismatchRaisesFirst ==
    (hOp = "compare_all" /\ Len(hRefs) # Len(hHyps)) =>
        /\ hPc = "raised"
        /\ hRaised = "ValueError"
        /\ hResults = <<>>
        /\ hI = 0
        /\ model = "none"
        /\ hLoads = 0
        /\ hEncodes = 0

\* compare_all was called with two non-empty lists of different lengths
C8_Witness ==
    /\ hOp = "compare_all"
    /\ hRaised = "ValueError"
    /\ Len(hRefs) = 2
    /\ Len(hHyps) = 1

\* the k-th pair was scored with no failing library call and the k-th result is
\* what the pair scores on its own
CleanPairResult(k) ==
    IF hOp = "compare_all"
    THEN /\ hResults[k].chunk_index = k - 1
         /\ hResults[k].wer = PoolRate["wer", PairAt(k)]
         /\ hResults[k].cer = PoolRate["cer", PairAt(k)]
         /\ hResults[k].semantic_similarity = PoolSemantic[PairAt(k), hEnvs[k].cos]
    ELSE hResults[k] = PoolSemantic[PairAt(k), hEnvs[k].cos]

\* the k-th result carries the worst-case value of every metric whose library
\* call failed
WorstCasePairResult(k) ==
    IF hOp = "compare_all"
    THEN /\ ("wer" \in hEnvs[k].fault /\ PoolEmptyFree[PairAt(k)])
                => hResults[k].wer = One
         /\ ("cer" \in hEnvs[k].fault /\ PoolEmptyFree[PairAt(k)])
                => hResults[k].cer = One
         /\ ("encode" \in hEnvs[k].fault /\ PoolEmptyFree[PairAt(k)])
                => hResults[k].semantic_similarity = Zero
    ELSE ("encode" \in hEnvs[k].fault /\ PoolEmptyFree[PairAt(k)])
                => hResults[k] = Zero

\* the batch returned one result per pair, worst-case for the failed pairs and
\* unaffected for the others
BatchCompleted ==
    /\ hPc = "returned"
    /\ Len(hResults) = Len(hRefs)
    /\ \A k \in 1..Len(hResults) :
          IF hEnvs[k].fault = {} THEN CleanPairResult(k) ELSE WorstCasePairResult(k)

\* C9 as stated: a batch call on equal-length inputs that has ended always
\* returned one result per pair, whatever failed while a pair was scored.
C9_BatchAlwaysCompletes ==
    (hOp \in {"compare_all", "calculate_batch"} /\ Ended /\ Len(hRefs) = Len(hHyps)) =>
        BatchCompleted

\* C9 amended: provided the embedding model can be constructed (with or without
\* the token), a batch call on equal-length inputs that has ended returned one
\* result per pair; a pair whose alignment or inference failed carries
\* worst-case scores and every other pair scores as if nothing had failed.
C9_BatchCompletesWhenModelLoads ==
    (hOp \in {"compare_all", "calculate_batch"} /\ Ended /\ Len(hRefs) = Len(hHyps)
        /\ hBackend # "fails") =>
        BatchCompleted

\* compare_all returned two results, the first pair having failed in all three
\* metrics and the second in none
C9_Witness ==
    /\ hOp = "compare_all"
    /\ hPc = "returned"
    /\ Len(hResults) = 2
    /\ hEnvs[1].fault = {"wer", "cer", "encode"}
    /\ PoolEmptyFree[PairAt(1)]
    /\ hEnvs[2].fault = {}
    /\ hResults[1].hybrid_score = Zero
    /\ hResults[2].hybrid_score # Zero

\* C10: a failure inside one metric's computation does not leave the call: the
\* pair still gets its result, in which a failed alignment gives wer (cer) 1.0
\* and a failed inference gives similarity 0.0, and each metric whose own
\* computation did not fail has the value it has without any failure.
C10_MetricFailureIsLocal ==
    (hOp = "compare_all" /\ hRaised = "none") =>
        /\ Len(hResults) = hI
        /\ Len(hEnvs) = hI
        /\ \A k \in 1..Len(hResults) :
              /\ hResults[k].wer =
                    (IF "wer" \in hEnvs[k].fault /\ PoolEmptyFree[PairAt(k)]
                     THEN One ELSE PoolRate["wer", PairAt(k)])
              /\ hResults[k].cer =
                    (IF "cer" \in hEnvs[k].fault /\ PoolEmptyFree[PairAt(k)]
                     THEN One ELSE PoolRate["cer", PairAt(k)])
              /\ hResults[k].semantic_similarity =
                    (IF "encode" \in hEnvs[k].fault /\ PoolEmptyFree[PairAt(k)]
                     THEN Zero ELSE PoolSemantic[PairAt(k), hEnvs[k].cos])

\* a pair whose inference failed while its alignments succeeded: similarity 0.0
\* next to a word error rate of 1/2 and a character error rate of 1/3
C10_Witness ==
    /\ hOp = "compare_all"
    /\ hI >= 1
    /\ hEnvs[1].fault = {"encode"}
    /\ hResults[1].semantic_similarity = Zero
    /\ hResults[1].wer = Rat(1, 2)
    /\ hResults[1].cer = Rat(1, 3)

\* HybridScore(alpha).compare(reference, hypothesis, chunk_index), tabulated over the
\* scorers, the pool, the positions of a batch and the behaviours of the libraries
PoolCompare ==
    [a \in Alphas, p \in PairPool, i \in 0..MaxBatch, env \in PairEnvs |->
        compare(a, p[1], p[2], i, env)]

\* C13: for lists of equal length compare_all returns a list of the same length
\* whose i-th (0-based) result has chunk_index i and is the result of
\* compare(references[i], hypotheses[i], i): it carries the normalized texts and
\* the metrics of its own pair only, whatever the other pairs are.
C13_CompareAllIsPositionwiseCompare ==
    (hOp = "compare_all" /\ hPc = "returned") =>
        /\ Len(hResults) = Len(hRefs)
        /\ Len(hResults) = Len(hHyps)
        /\ \A k \in 1..Len(hResults) :
              /\ hResults[k].chunk_index = k - 1
              /\ hResults[k] = PoolCompare[alpha, PairAt(k), k - 1, hEnvs[k]]

\* compare_all returned the results of two different pairs, the second one at
\* position 1 with a failed inference that the first one did not have
C13_Witness ==
    /\ hOp = "compare_all"
    /\ hPc = "returned"
    /\ Len(hResults) = 2
    /\ hRefs[1] = <<"a">>
    /\ hRefs[2] = <<"A", " ", "b", "!">>
    /\ hEnvs[1].fault = {}
    /\ hEnvs[2].fault = {"encode"}
    /\ hResults[1].chunk_index = 0
    /\ hResults[2].chunk_index = 1
    /\ hResults[1].wer = One
    /\ hResults[2].wer = Rat(1, 2)
    /\ hResults[2].semantic_similarity = Zero

\* C18: for the empty text and for every text of whitespace only, deduplicate_text
\* returns the empty text and runs none of its repetition-removal passes: the
\* call goes from its entry straight to its return, touching no local of a pass
\* and logging nothing.
C18_BlankInputBypassesPasses ==
    (dPc # "off" /\ \A k \in 1..Len(dText) : IsSpace(dText[k])) =>
        /\ dPc \in {"call", "done"}
        /\ dCur = <<>>
        /\ dWords = <<>>
        /\ dN = 0
        /\ dLogged = FALSE
        /\ dPc = "done" => dOut = <<>>

\* deduplicate_text returned "" for a text of three spaces
C18_Witness ==
    /\ dPc = "done"
    /\ dText = <<" ", " ", " ">>
    /\ dOut = <<>>
    /\ dN = 0

(***************************************************************************)
(* Properties of the large-segment pass                                    *)
(***************************************************************************)

\* the window of S words that starts after the first p words, in lower case
Window(words, p, S) == [k \in 1..S |-> Lower(words[p + k])]

\* two windows of S words are similar: identical, or from S = 10 on, equal in at
\* least 90% of their positions
SimilarWindows(u, v, S) ==
    \/ u = v
    \/ S >= 10 /\ 10 * Cardinality({k \in 1..S : u[k] = v[k]}) >= 9 * S

\* the window after the first p words is followed by a window similar to it
Hit(words, p, S) ==
    /\ p + 2 * S <= Len(words)
    /\ SimilarWindows(Window(words, p, S), Window(words, p + S, S), S)

\* the t-th window after the one at p lies in the text and is similar to the
\* window at p
Repeats(words, p, S, t) ==
    /\ p + (t + 1) * S <= Len(words)
    /\ SimilarWindows(Window(words, p, S), Window(words, p + t * S, S), S)

\* the number of windows dropped after a hit at p: all of the first m windows
\* repeat the window at p and the next one does not
Dropped(words, p, S) ==
    CHOOSE m \in 1..Len(words) :
        /\ \A t \in 1..m : Repeats(words, p, S, t)
        /\ ~Repeats(words, p, S, m + 1)

\* what the pass for segment size S makes of the words after the first p
RECURSIVE SegmentPassReference(_, _, _)
SegmentPassReference(words, p, S) ==
    IF p >= Len(words) THEN <<>>
    ELSE IF Hit(words, p, S)
         THEN SubSeq(words, p + 1, p + S)
                  \o SegmentPassReference(words, p + (1 + Dropped(words, p, S)) * S, S)
    ELSE <<words[p + 1]>> \o SegmentPassReference(words, p + 1, S)

\* C20: in the large-segment pass for segment size S two windows are similar iff
\* they are case-insensitively identical or, only when S >= 10, match in at
\* least 90% of their positions; on a hit at position i the window [i, i+S) is
\* kept, every following window of size S is dropped as long as it is similar
\* to that first window (not to the window dropped before it), and scanning
\* resumes at the first position of the first window that is not.
C20_LargeSegmentPass ==
    [][(dPc = "large" /\ dN > 5) => dWords' = SegmentPassReference(dWords, 0, dN)]_vars

\* the pass for S = 10 dropped the second of three ten-word windows (90% equal to
\* the first) and kept the third, which is 90% equal to the second but only 80%
\* equal to the first
C20_Witness ==
    /\ dText = Join(TenWords \o Subst(TenWords, 10, <<"c">>)
                        \o Subst(Subst(TenWords, 10, <<"c">>), 9, <<"d">>))
    /\ dPc = "large"
    /\ dN = 9
    /\ dWords = TenWords \o Subst(Subst(TenWords, 10, <<"c">>), 9, <<"d">>)

(***************************************************************************)
(* Properties of the punctuation step of normalize                         *)
(***************************************************************************)

\* whether c is kept by the character-class sweep
Kept(c) == IsWordChar(c) \/ IsSpace(c) \/ c = "'"

\* the token without its leading and trailing apostrophes
Core(token) ==
    LET inner == {i \in 1..Len(token) : token[i] # "'"}
    IN  IF inner = {} THEN <<>>
        ELSE SubSeq(token, Nth(inner, 1), Nth(inner, Cardinality(inner)))

\* the tokens of text, each without its leading and trailing apostrophes, the
\* tokens made of apostrophes only left out
CoreTokens(text) ==
    SelectSeq([k \in 1..Len(Split(text)) |-> Core(Split(text)[k])], LAMBDA t : t # <<>>)

\* the reference that deletes: drop every character that is not kept, inserting
\* nothing, then drop the apostrophes at the start and the end of every token
DeleteReference(text) == CoreTokens(SelectSeq(text, Kept))

\* the text with a space in the place of every character that is not kept
Spaced(text) == [k \in 1..Len(text) |-> IF Kept(text[k]) THEN text[k] ELSE " "]

\* the punctuation step ran in the call
PunctuationStepRan == nPc \in {"once", "twice"} /\ nText # <<>>

C15_TranscriptCopy ==
    /\ [](tInputs = tGiven)
    /\ [](Len(tOutputs) = tI /\ tI <= Len(tGiven))
    /\ [](tPc = "returned" => Len(tOutputs) = Len(tGiven))
    /\ [](\A k \in 1..Len(tOutputs) :
              /\ tOutputs[k].raw_text = tGiven[k].text
              /\ tOutputs[k].deduplicated = TRUE
              /\ tOutputs[k].model_name = tGiven[k].model_name
              /\ tOutputs[k].chunk_index = tGiven[k].chunk_index
              /\ tOutputs[k].confidence = tGiven[k].confidence
              /\ tOutputs[k].language = tGiven[k].language
              /\ tOutputs[k].processing_time = tGiven[k].processing_time)
    /\ [][tI' # tI =>
             /\ dPc = "done"
             /\ dText = tGiven[tI'].text
             /\ tOutputs'[tI'].text = dOut
             /\ SubSeq(tOutputs', 1, tI) = tOutputs]_vars

\* deduplicate_transcripts returned for a transcript that had been deduplicated
\* before, followed by the twelve-word one: texts "A" and "a b c a d b", each
\* raw_text the text that was passed in
C15_Witness ==
    /\ tPc = "returned"
    /\ Len(tOutputs) = 2
    /\ tGiven[1].text = <<" ", "A", " ", " ", "a", " ">>
    /\ tGiven[1].raw_text = <<"a", " ", "A", " ", "a">>
    /\ tOutputs[1].text = <<"A">>
    /\ tOutputs[1].raw_text = <<" ", "A", " ", " ", "a", " ">>
    /\ tOutputs[1].chunk_index = 3
    /\ tGiven[2].text = TwiceSaid
    /\ tOutputs[2].text = <<"a", " ", "b", " ", "c", " ", "a", " ", "d", " ", "b">>
    /\ tOutputs[2].raw_text = TwiceSaid
    /\ tOutputs[2].deduplicated = TRUE

(***************************************************************************)
(* Properties of one SemanticSimilarity object                             *)
(***************************************************************************)

\* the scored pairs of the call whose two normalized texts are both non-empty
EncodedPairs ==
    {k \in 1..hI : normalize(hRefs[k]) # <<>> /\ normalize(hHyps[k]) # <<>>}

\* C11: SemanticSimilarity.calculate returns 1.0 when both normalized inputs are
\* empty and 0.0 when exactly one of them is empty, and in either case makes no
\* encode call: the encode calls of a call are exactly one per pair whose two
\* normalized texts are non-empty.
C11_EmptyInputsScoreWithoutEncode ==
    hOp \in {"calculate", "calculate_batch"} =>
        /\ \A k \in 1..Len(hResults) :
              LET t1 == normalize(hRefs[k])
                  t2 == normalize(hHyps[k])
              IN  /\ (t1 = <<>> /\ t2 = <<>>) => hResults[k] = One
                  /\ (t1 = <<>>) # (t2 = <<>>) => hResults[k] = Zero
        /\ hEncodes = Cardinality(EncodedPairs)

\* calculate returned 0.0 for "!" against "a" with the model loaded and no encode call
C11_Witness ==
    /\ hOp = "calculate"
    /\ hPc = "returned"
    /\ model = "loaded"
    /\ hRefs = << <<"!">> >>
    /\ hHyps = << <<"a">> >>
    /\ hResults = <<Zero>>
    /\ hEncodes = 0

\* whether the step is a step of a call (and not the caller moving on)
InCall == hCalls' = hCalls

\* C12: under any sequence of calculate, calculate_batch and unload_model calls,
\* a model is constructed exactly once per transition of the slot from unloaded
\* to loaded and never while the slot is loaded, unload_model on an unloaded slot
\* changes nothing, and an encode call is only made with the slot loaded, so the
\* first calculate after an unload constructs the model before it encodes.
C12_SlotLifecycle ==
    [][/\ (InCall /\ model = "loaded") => (hBuilt' = hBuilt /\ hLoads' = hLoads)
       /\ (InCall /\ model = "none" /\ model' = "loaded") => hBuilt' = hBuilt + 1
       /\ (InCall /\ hBuilt' # hBuilt) => (model = "none" /\ model' = "loaded")
       /\ (hOp' = "unload_model" /\ hPc = "idle" /\ model = "none") =>
              (model' = "none" /\ UNCHANGED <<hLoads, hBuilt, hEncodes, hResults, hRaised>>)
       /\ (InCall /\ hEncodes' # hEncodes) =>
              (model' = "loaded" /\ (model = "none" => hBuilt' = hBuilt + 1))
      ]_vars

\* after a load and an unload, a calculate call on two non-empty texts has
\* constructed the model again and made its encode call
C12_Witness ==
    /\ hCalls = 2
    /\ hOp = "calculate"
    /\ hPc = "returned"
    /\ model = "loaded"
    /\ hBuilt = 1
    /\ hEncodes = 1

(***************************************************************************)
(* Properties of calculate beside a concurrent unload_model                *)
(***************************************************************************)

\* the call returned for two texts that are non-empty once normalized, and no
\* construction and no inference of the backend failed
CleanCallReturned ==
    /\ cPc = "returned"
    /\ ReachesEncode(hRefs[1], hHyps[1])
    /\ hEnvs[1].fault = {}

Clamped(cos) == RatMax(Zero, RatMin(One, cos))

\* C25 as claimed: when the backend never fails, calculate on two non-empty texts
\* returns their clamped cosine even if unload_model runs on another thread
\* between the load step and the encode step.
C25_UnloadNeverSpoilsResult ==
    CleanCallReturned => hResults[1] = Clamped(hEnvs[1].cos)

\* C25 as amended: when the backend never fails, calculate on two non-empty
\* texts returns their clamped cosine exactly when the slot still holds the
\* model at the encode step; when unload_model on another thread has cleared
\* the slot after the load step, the call returns 0.0, makes no encode call and
\* leaves the slot cleared. It never raises in either case.
C25_UnloadBeforeEncodeYieldsZero ==
    CleanCallReturned =>
        /\ hRaised = "none"
        /\ cSeen = "loaded" => (hResults[1] = Clamped(hEnvs[1].cos) /\ hEncodes = 1)
        /\ cSeen = "none" => (hResults[1] = Zero /\ hEncodes = 0 /\ uCount >= 1)
        /\ cSeen \in {"loaded", "none"}

\* one unload_model ran between load and encode: the pair whose cosine is 0.75
\* was scored 0.0 and the slot is empty
C25_Witness ==
    /\ CleanCallReturned
    /\ hBackend = "ok"
    /\ uCount = 1
    /\ cSeen = "none"
    /\ model = "none"
    /\ hEnvs[1].cos = Rat(3, 4)
    /\ hResults[1] = Zero

(***************************************************************************)
(* Properties of calculate on a pair with an empty side                    *)
(***************************************************************************)

\* the step is a whole calculate call on a pair of which at least one text is
\* empty once normalized
EmptyPairCall ==
    /\ hPc = "idle"
    /\ hPc' # "idle"
    /\ hOp' = "calculate"
    /\ ~ReachesEncode(hRefs'[1], hHyps'[1])

\* the fixed result of such a pair: 1.0 when both sides are empty, else 0.0
FixedResult(text1, text2) ==
    IF Strip(normalize(text1)) = Strip(normalize(text2)) THEN One ELSE Zero

\* C27 as claimed: calculate on a pair with an empty normalized side returns
\* its fixed result without loading the model: the slot is left as it was, no
\* construction is attempted and the call cannot fail.
C27_EmptyPairNeverLoads ==
    [][EmptyPairCall =>
          /\ hPc' = "returned"
          /\ hResults' = <<FixedResult(hRefs'[1], hHyps'[1])>>
          /\ model' = model
          /\ hLoads' = hLoads]_vars

\* C27 as amended: calculate on a pair with an empty normalized side makes no
\* encode call, but it runs _load_model first. With the slot loaded it returns
\* the fixed result and constructs nothing; with the slot unloaded and a backend
\* that can be constructed it loads the model (the slot is loaded afterwards)
\* and returns the fixed result; with the slot unloaded and a backend that
\* cannot be constructed it raises the construction error and returns nothing.
C27_EmptyPairLoadsFirst ==
    [][EmptyPairCall =>
          /\ hEncodes' = hEncodes
          /\ model = "loaded" =>
                /\ hPc' = "returned"
                /\ hResults' = <<FixedResult(hRefs'[1], hHyps'[1])>>
                /\ model' = "loaded"
                /\ hLoads' = hLoads
          /\ (model = "none" /\ hBackend # "fails") =>
                /\ hPc' = "returned"
                /\ hResults' = <<FixedResult(hRefs'[1], hHyps'[1])>>
                /\ model' = "loaded"
                /\ hLoads' > hLoads
                /\ hBuilt' = hBuilt + 1
          /\ (model = "none" /\ hBackend = "fails") =>
                /\ hPc' = "raised"
                /\ hRaised' = "LoadError"
                /\ hResults' = hResults
                /\ model' = "none"
                /\ hLoads' = hLoads + 2]_vars

\* the first call on the object scored "" against "": it returned 1.0 without an
\* encode call, and the model was constructed and now fills the slot
C27_Witness ==
    /\ hOp = "calculate"
    /\ hPc = "returned"
    /\ hCalls = 0
    /\ hRefs = << <<>> >>
    /\ hHyps = << <<>> >>
    /\ hResults = <<One>>
    /\ hEncodes = 0
    /\ hBuilt = 1
    /\ model = "loaded"

(***************************************************************************)
(* Properties of compare and of the serialization                          *)
(***************************************************************************)

\* 0 <= x <= 1
InUnit(x) == x.d > 0 /\ 0 <= x.n /\ x.n <= x.d

\* C14: for a HybridScore with alpha in [0, 1] and every pair of texts, the wer,
\* cer, semantic_similarity and hybrid_score that compare returns (the metrics of
\* calculate) all lie in [0, 1].
C14_MetricsInUnitInterval ==
    (hOp = "compare" /\ hPc = "returned") =>
        /\ InUnit(hResults[1].wer)
        /\ InUnit(hResults[1].cer)
        /\ InUnit(hResults[1].semantic_similarity)
        /\ InUnit(hResults[1].hybrid_score)

\* compare with alpha = 1 returned for a pair whose raw word error rate is 3 and
\* whose raw cosine is 1.5: every metric sits on an end of the interval
C14_Witness ==
    /\ hOp = "compare"
    /\ hPc = "returned"
    /\ alpha = One
    /\ hRefs = << <<"a">> >>
    /\ hEnvs[1] = [fault |-> {}, cos |-> Rat(3, 2)]
    /\ hResults[1].wer = One
    /\ hResults[1].cer = One
    /\ hResults[1].semantic_similarity = One
    /\ hResults[1].hybrid_score = Zero

\* C16: from_dict(r.to_dict()) has the chunk_index of r and, at the 4 decimals
\* that to_dict emits, the wer, cer, semantic_similarity and hybrid_score of r,
\* for every result r of compare with alpha in [0, 1].
C16_RoundTripKeepsMetrics ==
    sPc = "restored" =>
        LET r == hResults[1]
            back == sBack[1]
        IN  /\ back.chunk_index = r.chunk_index
            /\ round(back.wer, Digits) = round(r.wer, Digits)
            /\ round(back.cer, Digits) = round(r.cer, Digits)
            /\ round(back.semantic_similarity, Digits) = round(r.semantic_similarity, Digits)
            /\ round(back.hybrid_score, Digits) = round(r.hybrid_score, Digits)

(***************************************************************************)
(* Properties of MetricsSummary.from_results                               *)
(***************************************************************************)

\* the wer (kind "wer") or cer (kind "cer") of the k-th result
MetricAt(kind, k) == IF kind = "wer" THEN mResults[k].wer ELSE mResults[k].cer

\* low and high are the least and greatest value of the metric over the results,
\* avg times the number of results is their sum, and low <= avg <= high
Summarizes(kind, avg, low, high) ==
    /\ RatMul(avg, Rat(Len(mResults), 1)) =
           RatSum([k \in 1..Len(mResults) |-> MetricAt(kind, k)])
    /\ \E k \in 1..Len(mResults) : MetricAt(kind, k) = low
    /\ \E k \in 1..Len(mResults) : MetricAt(kind, k) = high
    /\ \A k \in 1..Len(mResults) : RatLeq(low, MetricAt(kind, k)) /\ RatLeq(MetricAt(kind, k), high)
    /\ RatLeq(low, avg)
    /\ RatLeq(avg, high)

\* C17: from_results fails on no list of results; for the empty list every
\* average, min, max and standard deviation is 0.0 and total_chunks is 0; for a
\* non-empty list total_chunks is the number of results, avg_wer is the mean of
\* the results' wer, min_wer and max_wer are the least and the greatest wer, and
\* min_wer <= avg_wer <= max_wer, and likewise for cer.
C17_SummaryOfResults ==
    /\ mPc # "raised"
    /\ mPc = "returned" =>
          LET s == mSummary[1]
          IN  IF mResults = <<>>
              THEN s = [avg_wer |-> Zero, avg_cer |-> Zero, avg_semantic_similarity |-> Zero,
                        avg_hybrid_score |-> Zero, min_wer |-> Zero, max_wer |-> Zero,
                        std_wer |-> sqrt(Zero), min_cer |-> Zero, max_cer |-> Zero,
                        std_cer |-> sqrt(Zero), total_chunks |-> 0]
              ELSE /\ s.total_chunks = Len(mResults)
                   /\ Summarizes("wer", s.avg_wer, s.min_wer, s.max_wer)
                   /\ Summarizes("cer", s.avg_cer, s.min_cer, s.max_cer)

\* the summary of three results with wer 1/2, 0, 3/2 and cer 1/3, 0, 1/4
C17_Witness ==
    /\ mPc = "returned"
    /\ Len(mResults) = 3
    /\ mResults[1].wer = Rat(1, 2)
    /\ mResults[2].wer = Zero
    /\ mResults[3].wer = Rat(3, 2)
    /\ mSummary[1].total_chunks = 3
    /\ mSummary[1].avg_wer = Rat(2, 3)
    /\ mSummary[1].min_wer = Zero
    /\ mSummary[1].max_wer = Rat(3, 2)
    /\ mSummary[1].avg_cer = Rat(7, 36)
    /\ mSummary[1].min_cer = Zero
    /\ mSummary[1].max_cer = Rat(1, 3)

\* the metrics of an already normalized pair of texts, computed on the texts as
\* they are: the empty-text rules, 1.0 for a failed alignment, else the capped rate
StoredRate(kind, caption, transcript, fails) ==
    IF Strip(caption) = <<>> THEN (IF Strip(transcript) = <<>> THEN Zero ELSE One)
    ELSE IF Strip(transcript) = <<>> THEN One
    ELSE IF fails THEN One
    ELSE IF kind = "wer"
         THEN RatMin(One, Rat(Levenshtein(Split(caption), Split(transcript)),
                              Len(Split(caption))))
         ELSE RatMin(One, Rat(Levenshtein(caption, transcript), Len(caption)))

\* the similarity of an already normalized pair under the library behaviour env
StoredSimilarity(caption, transcript, env) ==
    IF Strip(caption) = <<>> \/ Strip(transcript) = <<>>
    THEN (IF Strip(caption) = Strip(transcript) THEN One ELSE Zero)
    ELSE IF "encode" \in env.fault THEN Zero
    ELSE RatMax(Zero, RatMin(One, env.cos))

\* C22: the record compare(reference, hypothesis) returns has normalized_caption
\* = the normalized reference and normalized_transcript = the normalized
\* hypothesis (not swapped), and its wer, cer and semantic_similarity are the
\* metrics of that stored pair, the caption taken as the reference.
C22_RecordIsConsistent ==
    (hOp = "compare" /\ hPc = "returned") =>
        LET r == hResults[1]
            env == hEnvs[1]
        IN  /\ r.normalized_caption = normalize(hRefs[1])
            /\ r.normalized_transcript = normalize(hHyps[1])
            /\ r.wer = StoredRate("wer", r.normalized_caption, r.normalized_transcript,
                                  "wer" \in env.fault)
            /\ r.cer = StoredRate("cer", r.normalized_caption, r.normalized_transcript,
                                  "cer" \in env.fault)
            /\ r.semantic_similarity =
                   StoredSimilarity(r.normalized_caption, r.normalized_transcript, env)

\* compare returned for "a B" against "A.": the caption is "a b", the transcript
\* "a", and the rates are those with the two-word caption as the reference
C22_Witness ==
    /\ hOp = "compare"
    /\ hPc = "returned"
    /\ hRefs = << <<"a", " ", "B">> >>
    /\ hResults[1].normalized_caption = <<"a", " ", "b">>
    /\ hResults[1].normalized_transcript = <<"a">>
    /\ hEnvs[1].fault = {}
    /\ hResults[1].wer = Rat(1, 2)
    /\ hResults[1].cer = Rat(2, 3)

\* C23: deduplicate_text is idempotent: for every input x,
\* deduplicate_text(deduplicate_text(x)) = deduplicate_text(x).
C23_DeduplicateIdempotent ==
    (dRound = 2 /\ dPc = "done") => dOut = dFirst[1]

\* out can be obtained from given by deleting words
RECURSIVE IsSubsequence(_, _)
IsSubsequence(out, given) ==
    IF out = <<>> THEN TRUE
    ELSE IF given = <<>> THEN FALSE
    ELSE IF out[1] = given[1] THEN IsSubsequence(Tail(out), Tail(given))
    ELSE IsSubsequence(out, Tail(given))

\* C24: deduplicate_text only deletes words: the output words are an
\* order-preserving subsequence of the input words in their original spelling
\* and casing, the output begins with the input's first word, and it is
\* non-empty whenever the input has a word.
C24_OnlyDeletesWords ==
    dPc = "done" =>
        LET given == Split(dText)
            out == Split(dOut)
        IN  /\ IsSubsequence(out, given)
            /\ given # <<>> => (out # <<>> /\ out[1] = given[1])

\* "A b A b a" came back as "A b a": the repeated pair lost its second copy and
\* the kept words have the casing of the input
C24_Witness ==
    /\ dPc = "done"
    /\ Split(dText) = << <<"A">>, <<"b">>, <<"A">>, <<"b">>, <<"a">> >>
    /\ dText = Join(Split(dText))
    /\ dOut = <<"A", " ", "b", " ", "a">>

(***************************************************************************)
(* Properties of calculate_detailed                                        *)
(***************************************************************************)

\* C26: the "cer" of calculate_detailed(reference, hypothesis) equals
\* CERCalculator.calculate(reference, hypothesis) on the same raw inputs, and it
\* is the error rate of the normalized texts whose lengths are reported as
\* reference_chars and hypothesis_chars.
C26_DetailedAgreesWithCalculate ==
    (rKind = "cer_detailed" /\ rPc = "done" /\ ~rFailed) =>
        /\ rDetail[1].cer = cer_calculate(rRef, rHyp, FALSE)
        /\ rDetail[1].reference_chars = Len(normalize(rRef))
        /\ rDetail[1].hypothesis_chars = Len(normalize(rHyp))
        /\ rDetail[1].cer = StoredRate("cer", normalize(rRef), normalize(rHyp), FALSE)

\* C28: deduplicate_text logs its heavy-deduplication note exactly when the
\* cleaned word count is at most 70% of the original word count (a drop of at
\* least 30%, a drop of exactly 30% included).
C28_NoteFromThirtyPercent ==
    dPc = "done" =>
        LET original_words == Len(Split(dText))
            cleaned_words == Len(Split(dOut))
        IN  dLogged <=> (original_words > 0 /\ 10 * cleaned_words <= 7 * original_words)

\* C29: after one or more applications of deduplicate_transcript, the result's
\* raw_text still equals the text the transcript had before the first
\* application.
C29_RawTextSurvivesRepeats ==
    tPc = "returned" =>
        \A k \in 1..Len(tOutputs) : tOutputs[k].raw_text = tGiven[k].text

(***************************************************************************)
(* The web job tracker: _run_pipeline_with_chunks on one job of `jobs`     *)
(***************************************************************************)

\* the most chunks the VAD chunker returns
MaxChunks == 4

\* base_progress
BaseProgress == 40

\* chunk_progress_range
ChunkProgressRange == 55

\* base_progress + int((i / len(chunks)) * chunk_progress_range); the float
\* product truncates to the integer quotient for every len(chunks) below 11
chunk_progress(i, total) == BaseProgress + ((i * ChunkProgressRange) \div total)

\* a chunk loop whose except clause leaves the entry as it is
chunk_outcome_unhandled(raised) == IF raised THEN "processing" ELSE "completed"

\* the "status" of the entry the loop body stores for chunk i: chunk_result when
\* transcribe, deduplicate and compare returned, the error entry when one raised
chunk_outcome(raised) == IF raised THEN "error" ELSE "completed"

\* the job as api_process stored it, its thread started
InitJob ==
    /\ jPc = "start"
    /\ jStatus = "queued"
    /\ jProgress = 0
    /\ jChunks = <<>>
    /\ jI = 0
    /\ jResults = 0
    /\ DedupIdle
    /\ NormIdle
    /\ RateIdle
    /\ HybridIdle
    /\ SerialIdle
    /\ TranscriptIdle
    /\ SummaryIdle
    /\ ConfigIdle
    /\ AgainIdle
    /\ RaceIdle
    /\ DetailIdle

\* job["status"] = "running"
MarkRunning ==
    /\ jPc = "start"
    /\ jStatus' = "running"
    /\ jPc' = "setup"
    /\ UNCHANGED <<jProgress, jChunks, jI, jResults>>
    /\ UNCHANGED <<dedupVars, normVars, rateVars, hybridVars, serialVars, transcriptVars, summaryVars>>
    /\ UNCHANGED <<configVars, againVars, raceVars, detailVars>>

\* job["progress"] = 5, then video_dir.mkdir, which may raise
SetUp ==
    /\ jPc = "setup"
    /\ jProgress' = 5
    /\ \E raises \in BOOLEAN : jPc' = IF raises THEN "except" ELSE "download"
    /\ UNCHANGED <<jStatus, jChunks, jI, jResults>>
    /\ UNCHANGED <<dedupVars, normVars, rateVars, hybridVars, serialVars, transcriptVars, summaryVars>>
    /\ UNCHANGED <<configVars, againVars, raceVars, detailVars>>

\* job["progress"] = 10, then download_with_info, which may raise
DownloadAudio ==
    /\ jPc = "download"
    /\ jProgress' = 10
    /\ \E raises \in BOOLEAN : jPc' = IF raises THEN "except" ELSE "convert"
    /\ UNCHANGED <<jStatus, jChunks, jI, jResults>>
    /\ UNCHANGED <<dedupVars, normVars, rateVars, hybridVars, serialVars, transcriptVars, summaryVars>>
    /\ UNCHANGED <<configVars, againVars, raceVars, detailVars>>

\* job["progress"] = 20, then converter.convert, which may raise
ConvertToWav ==
    /\ jPc = "convert"
    /\ jProgress' = 20
    /\ \E raises \in BOOLEAN : jPc' = IF raises THEN "except" ELSE "detect"
    /\ UNCHANGED <<jStatus, jChunks, jI, jResults>>
    /\ UNCHANGED <<dedupVars, normVars, rateVars, hybridVars, serialVars, transcriptVars, summaryVars>>
    /\ UNCHANGED <<configVars, againVars, raceVars, detailVars>>

\* job["progress"] = 30, then chunker.chunk, which may raise
DetectSpeech ==
    /\ jPc = "detect"
    /\ jProgress' = 30
    /\ \E raises \in BOOLEAN : jPc' = IF raises THEN "except" ELSE "chunked"
    /\ UNCHANGED <<jStatus, jChunks, jI, jResults>>
    /\ UNCHANGED <<dedupVars, normVars, rateVars, hybridVars, serialVars, transcriptVars, summaryVars>>
    /\ UNCHANGED <<configVars, againVars, raceVars, detailVars>>

\* job["chunks"] = [{"status": "pending", "index": i} for i in range(len(chunks))]
StoreChunks ==
    /\ jPc = "chunked"
    /\ \E n \in 0..MaxChunks :
          /\ jChunks' = [k \in 1..n |-> "pending"]
          /\ jPc' = IF n = 0 THEN "no_speech" ELSE "captions"
    /\ UNCHANGED <<jStatus, jProgress, jI, jResults>>
    /\ UNCHANGED <<dedupVars, normVars, rateVars, hybridVars, serialVars, transcriptVars, summaryVars>>
    /\ UNCHANGED <<configVars, againVars, raceVars, detailVars>>

\* if not chunks: job["status"] = "completed"
NoSpeechStatus ==
    /\ jPc = "no_speech"
    /\ jStatus' = "completed"
    /\ jPc' = "no_speech_progress"
    /\ UNCHANGED <<jProgress, jChunks, jI, jResults>>
    /\ UNCHANGED <<dedupVars, normVars, rateVars, hybridVars, serialVars, transcriptVars, summaryVars>>
    /\ UNCHANGED <<configVars, againVars, raceVars, detailVars>>

\* if not chunks: job["progress"] = 100; return
NoSpeechProgress ==
    /\ jPc = "no_speech_progress"
    /\ jProgress' = 100
    /\ jPc' = "done"
    /\ UNCHANGED <<jStatus, jChunks, jI, jResults>>
    /\ UNCHANGED <<dedupVars, normVars, rateVars, hybridVars, serialVars, transcriptVars, summaryVars>>
    /\ UNCHANGED <<configVars, againVars, raceVars, detailVars>>

\* job["progress"] = 35, then caption_extractor.extract, which may raise
ExtractCaptions ==
    /\ jPc = "captions"
    /\ jProgress' = 35
    /\ \E raises \in BOOLEAN : jPc' = IF raises THEN "except" ELSE "load"
    /\ UNCHANGED <<jStatus, jChunks, jI, jResults>>
    /\ UNCHANGED <<dedupVars, normVars, rateVars, hybridVars, serialVars, transcriptVars, summaryVars>>
    /\ UNCHANGED <<configVars, againVars, raceVars, detailVars>>

\* job["progress"] = 40, then get_transcriber and load_model, which may raise
LoadTranscriber ==
    /\ jPc = "load"
    /\ jProgress' = 40
    /\ \E raises \in BOOLEAN : jPc' = IF raises THEN "except" ELSE "loop"
    /\ UNCHANGED <<jStatus, jChunks, jI, jResults>>
    /\ UNCHANGED <<dedupVars, normVars, rateVars, hybridVars, serialVars, transcriptVars, summaryVars>>
    /\ UNCHANGED <<configVars, againVars, raceVars, detailVars>>

\* the loop head: job["progress"] = base_progress + int((i / len(chunks)) * ...)
ChunkProgress ==
    /\ jPc = "loop"
    /\ jI < Len(jChunks)
    /\ jProgress' = chunk_progress(jI, Len(jChunks))
    /\ jPc' = "mark"
    /\ UNCHANGED <<jStatus, jChunks, jI, jResults>>
    /\ UNCHANGED <<dedupVars, normVars, rateVars, hybridVars, serialVars, transcriptVars, summaryVars>>
    /\ UNCHANGED <<configVars, againVars, raceVars, detailVars>>

\* job["chunks"][i]["status"] = "processing"
ChunkProcessing ==
    /\ jPc = "mark"
    /\ jChunks' = [jChunks EXCEPT ![jI + 1] = "processing"]
    /\ jPc' = "work"
    /\ UNCHANGED <<jStatus, jProgress, jI, jResults>>
    /\ UNCHANGED <<dedupVars, normVars, rateVars, hybridVars, serialVars, transcriptVars, summaryVars>>
    /\ UNCHANGED <<configVars, againVars, raceVars, detailVars>>

\* the try block of the loop body (transcribe, deduplicate, caption, compare,
\* store chunk_result, append the result) or its except clause
ChunkWork ==
    /\ jPc = "work"
    /\ \E raised \in BOOLEAN :
          /\ jChunks' = [jChunks EXCEPT ![jI + 1] = chunk_outcome(raised)]
          /\ jResults' = jResults + (IF raised THEN 0 ELSE 1)
    /\ jI' = jI + 1
    /\ jPc' = "loop"
    /\ UNCHANGED <<jStatus, jProgress>>
    /\ UNCHANGED <<dedupVars, normVars, rateVars, hybridVars, serialVars, transcriptVars, summaryVars>>
    /\ UNCHANGED <<configVars, againVars, raceVars, detailVars>>

\* the loop is exhausted: job["progress"] = 95, then the summary and the report
\* files, which may raise
GenerateReport ==
    /\ jPc = "loop"
    /\ jI = Len(jChunks)
    /\ jProgress' = 95
    /\ \E raises \in BOOLEAN : jPc' = IF raises THEN "except" ELSE "complete"
    /\ UNCHANGED <<jStatus, jChunks, jI, jResults>>
    /\ UNCHANGED <<dedupVars, normVars, rateVars, hybridVars, serialVars, transcriptVars, summaryVars>>
    /\ UNCHANGED <<configVars, againVars, raceVars, detailVars>>

\* job["status"] = "completed"
MarkCompleteStatus ==
    /\ jPc = "complete"
    /\ jStatus' = "completed"
    /\ jPc' = "complete_progress"
    /\ UNCHANGED <<jProgress, jChunks, jI, jResults>>
    /\ UNCHANGED <<dedupVars, normVars, rateVars, hybridVars, serialVars, transcriptVars, summaryVars>>
    /\ UNCHANGED <<configVars, againVars, raceVars, detailVars>>

\* job["progress"] = 100, the stage and the result
MarkCompleteProgress ==
    /\ jPc = "complete_progress"
    /\ jProgress' = 100
    /\ jPc' = "done"
    /\ UNCHANGED <<jStatus, jChunks, jI, jResults>>
    /\ UNCHANGED <<dedupVars, normVars, rateVars, hybridVars, serialVars, transcriptVars, summaryVars>>
    /\ UNCHANGED <<configVars, againVars, raceVars, detailVars>>

\* the outer except clause: job["status"] = "failed"
PipelineFails ==
    /\ jPc = "except"
    /\ jStatus' = "failed"
    /\ jPc' = "done"
    /\ UNCHANGED <<jProgress, jChunks, jI, jResults>>
    /\ UNCHANGED <<dedupVars, normVars, rateVars, hybridVars, serialVars, transcriptVars, summaryVars>>
    /\ UNCHANGED <<configVars, againVars, raceVars, detailVars>>

NextJob ==
    \/ MarkRunning
    \/ SetUp
    \/ DownloadAudio
    \/ ConvertToWav
    \/ DetectSpeech
    \/ StoreChunks
    \/ NoSpeechStatus
    \/ NoSpeechProgress
    \/ ExtractCaptions
    \/ LoadTranscriber
    \/ ChunkProgress
    \/ ChunkProcessing
    \/ ChunkWork
    \/ GenerateReport
    \/ MarkCompleteStatus
    \/ MarkCompleteProgress
    \/ PipelineFails

SpecJob == InitJob /\ [][NextJob]_vars

(***************************************************************************)
(* Properties of the web job tracker                                       *)
(***************************************************************************)

\* the moves of job["status"] that the claim allows
StatusMoves ==
    {<<"queued", "running">>, <<"running", "completed">>, <<"running", "failed">>}

\* every entry of job["chunks"] is finished
ChunksSettled == \A k \in 1..Len(jChunks) : jChunks[k] \in {"completed", "error"}

\* C30: a job's status only moves queued -> running -> completed or failed, its
\* progress never decreases, and whenever the status is "completed" every entry
\* of its chunks list has status "completed" or "error", also when chunks raise
\* during transcription or comparison.
C30_JobTracker ==
    /\ [][/\ (jStatus' # jStatus => <<jStatus, jStatus'>> \in StatusMoves)
          /\ jProgress' >= jProgress]_vars
    /\ [](jStatus = "completed" => ChunksSettled)

\* a job of two chunks is completed at 100 although its first chunk raised
C30_Witness ==
    /\ jStatus = "completed"
    /\ jProgress = 100
    /\ jChunks = <<"error", "completed">>
    /\ jResults = 1

=============================================================================
